---- MODULE Spec2Model ----
(***************************************************************************)
(* OpenFront: the turn-resolution core (processAIAction, the interactive   *)
(* click handler, GameSimulator) and the reinforcement-learning loop       *)
(* (NeuralAI), as state machines.                                          *)
(*                                                                         *)
(* A grid is the array `territories`: a sequence of Territory records in   *)
(* array order.  An owner object {id, name, color} is modelled by its id   *)
(* (name and color are functions of the id everywhere they are written).   *)
(* Math.sqrt(dx*dx + dy*dy) <= r is computed as dx*dx + dy*dy <= r*r,      *)
(* which is the same test for the integer coordinates and ranges used.     *)
(* Math.floor(t * 0.7), Math.floor(t * 0.8) and Math.floor(t / 2) are      *)
(* computed in integers ((t*7) \div 10, ...); for the troop counts of the  *)
(* model (|t| < 90) the double-precision product has the same floor.       *)
(***************************************************************************)
EXTENDS Integers, Sequences, FiniteSets, TLC

(***************************************************************************)
(* Bounds of the model.                                                    *)
(***************************************************************************)
\* number of resolver calls explored from each initial grid (SpecResolver)
MaxCalls == 2
\* the harness grid: ArenaWidth x ArenaHeight cells
ArenaWidth == 3
ArenaHeight == 2
\* the simulator's map: MapWidth x MapHeight cells (generateRandomMap(20, 15))
MapWidth == 3
MapHeight == 3
\* days per episode (maxGameDays = 200), episodes per run (maxEpisodes = 10000) and
\* episodes between two batch updates (currentEpisode % 5 === 0), scaled down
MaxGameDays == 2
MaxEpisodes == 2
TrainEvery == 2
\* invocations of runSimulation and calls of startSimulation / stopSimulation explored
MaxLoops == 2
MaxApiCalls == 3
\* calls of addExperience explored: enough to fill the replay memory and evict twice
MaxInsertions == 10002
\* experiences per batch in the scaled training run of SpecSim (batchSize = 32)
SimBatchSize == 2
\* batch updates explored by SpecTrain: epsilon reaches its floor after 460
MaxTrainings == 461
\* SpecTrain: calls of initialize() / loadModel() made on the running NeuralAI, and the
\* number of batch updates within which they are made
MaxReloads == 1
MaxReloadStep == 11
ClientWidth == 16      \* the map of SpecClient: floor(canvas.width / 8), floor(canvas.height / 8)
ClientHeight == 1
DayTicks == 12         \* timer ticks per game day in SpecClient (300: 30 s of 100 ms ticks)
MaxStarts == 1         \* games started in SpecClient
RulesWidth == 6        \* the grids of SpecRules
RulesHeight == 3

(***************************************************************************)
(* Program constants.                                                      *)
(***************************************************************************)
\* processAIAction: Math.floor(troops * 0.7)
AIAttackPercent == 70
\* GameSimulator.executeAction: Math.floor(source.troops * 0.8)
SimAttackPercent == 80
\* handleCanvasClick: Math.floor(selectedTerritory.troops / 2)
ClickAttackPercent == 50
\* handleCanvasClick: Math.floor(selectedTerritory.troops * 0.8)
MovePercent == 80
\* "Reinforce with +5 troops"
DefendTroops == 5
\* findAdjacentTerritories(..., range = 2)
DefaultRange == 2
\* claimRadius of the first click
ClaimRadius == 2
\* troops of a claimed territory / of a starting territory of the simulator
StartTroops == 10
\* source.troops < 2 guard of executeAction
SimMinAttackTroops == 2
\* source.troops < 5 guard of getLegalActions / executeAITurn
MinAttackTroops == 5

NoOwner == "none"
NoBuilding == [type |-> "none", level |-> 0]
NoRef == [x |-> -1, y |-> -1]
NoKind == "none"

\* the keys of buildingCosts in their insertion order
BuildingTypes == <<"fort", "farm", "tower", "barracks", "wall", "mine", "market">>

BuildingKinds == {BuildingTypes[i] : i \in DOMAIN BuildingTypes}

buildingCosts ==
  [fort |-> 100, farm |-> 150, tower |-> 200, barracks |-> 120,
   wall |-> 80, mine |-> 150, market |-> 200]

\* a Territory object (color, troopCapacity and the cell's gold are never read by the core)
Territory(x, y, type, owner, troops) ==
  [x |-> x, y |-> y, type |-> type, owner |-> owner, troops |-> troops,
   building |-> NoBuilding, wall |-> FALSE, isSelected |-> FALSE]

\* the (x, y) by which an action names a territory
Ref(t) == [x |-> t.x, y |-> t.y]

Min(S) == CHOOSE i \in S : \A j \in S : i <= j

\* territories.findIndex((t) => t.x === r.x && t.y === r.y); 0 stands for -1
FindIndex(terr, r) ==
  LET S == {i \in DOMAIN terr : terr[i].x = r.x /\ terr[i].y = r.y}
  IN IF S = {} THEN 0 ELSE Min(S)

\* dx*dx + dy*dy
Dist2(a, b) == (a.x - b.x) * (a.x - b.x) + (a.y - b.y) * (a.y - b.y)

\* Math.floor(t * percent / 100)
FloorPercent(t, percent) == (t * percent) \div 100

(***************************************************************************)
(* ai.ts: the grid queries.  A filtered array is represented by the set of *)
(* the indices it keeps; filter keeps array order, so "the first element"  *)
(* is the least index.                                                     *)
(***************************************************************************)
\* distance <= range && distance > 0 && !t.wall
findAdjacentTerritories(terr, i, range) ==
  {j \in DOMAIN terr :
     /\ Dist2(terr[j], terr[i]) <= range * range
     /\ Dist2(terr[j], terr[i]) > 0
     /\ ~terr[j].wall}

\* distance <= range && distance > 0 && !t.owner && !t.wall
findNearbyEmptyTerritories(terr, i, range) ==
  {j \in DOMAIN terr :
     /\ Dist2(terr[j], terr[i]) <= range * range
     /\ Dist2(terr[j], terr[i]) > 0
     /\ terr[j].owner = NoOwner
     /\ ~terr[j].wall}

\* territories.filter((t) => t.owner && t.owner.id === id)
OwnedBy(terr, id) == {i \in DOMAIN terr : terr[i].owner = id}

(***************************************************************************)
(* ai.ts: processAIAction.  A decision is                                  *)
(*   [action, source, target, buildingType]                                *)
(* with source/target the (x, y) of the Territory objects it carries       *)
(* (NoRef for an absent one) and buildingType NoKind when absent.  The     *)
(* function mutates the Territory objects and aiPlayer.gold in place; the  *)
(* result is the [territories, gold] after the call.                       *)
(***************************************************************************)
Attack(s, t) == [action |-> "attack", source |-> s, target |-> t, buildingType |-> NoKind]
Defend(t) == [action |-> "defend", source |-> NoRef, target |-> t, buildingType |-> NoKind]
Build(t, k) == [action |-> "build", source |-> NoRef, target |-> t, buildingType |-> k]

\* building?.type === "fort" ? building.level : 0
DefenseBonus(t) == IF t.building.type = "fort" THEN t.building.level ELSE 0

\* troops * (1 + defenseBonus)
EffectiveDefense(t) == t.troops * (1 + DefenseBonus(t))

\* the capture branch of processAIAction: owner, troops, building (kept on a wall cell)
ProcessCapture(terr, t, id, force) ==
  [terr EXCEPT ![t].owner = id,
               ![t].troops = force - terr[t].troops,
               ![t].building = IF @ # NoBuilding /\ ~terr[t].wall THEN NoBuilding ELSE @]

\* case "attack"
ProcessAttack(terr, gold, d, id) ==
  IF d.source = NoRef \/ d.target = NoRef
  THEN [territories |-> terr, gold |-> gold]
  ELSE
    LET attackingIndex == FindIndex(terr, d.source)
        targetIndex == FindIndex(terr, d.target)
    IN IF attackingIndex = 0 \/ targetIndex = 0
       THEN [territories |-> terr, gold |-> gold]
       ELSE
         LET attackingTroops == FloorPercent(terr[attackingIndex].troops, AIAttackPercent)
             defenseBonus == DefenseBonus(terr[targetIndex])
             effectiveDefense == EffectiveDefense(terr[targetIndex])
             struck ==
               IF attackingTroops > effectiveDefense
               THEN ProcessCapture(terr, targetIndex, id, attackingTroops)
               ELSE [terr EXCEPT ![targetIndex].troops =
                                     @ - (attackingTroops \div (1 + defenseBonus))]
         IN [territories |-> [struck EXCEPT ![attackingIndex].troops = @ - attackingTroops],
             gold |-> gold]

\* a variant of the defend case that also hands the defended cell to the acting player
ProcessDefendTaking(terr, gold, d, id) ==
  IF d.target = NoRef
  THEN [territories |-> terr, gold |-> gold]
  ELSE
    LET defendIndex == FindIndex(terr, d.target)
    IN IF defendIndex = 0
       THEN [territories |-> terr, gold |-> gold]
       ELSE [territories |-> [terr EXCEPT ![defendIndex].troops = @ + DefendTroops,
                                          ![defendIndex].owner = id],
             gold |-> gold]

\* case "defend"
ProcessDefend(terr, gold, d, id) ==
  IF d.target = NoRef
  THEN [territories |-> terr, gold |-> gold]
  ELSE
    LET defendIndex == FindIndex(terr, d.target)
    IN IF defendIndex = 0
       THEN [territories |-> terr, gold |-> gold]
       ELSE [territories |-> [terr EXCEPT ![defendIndex].troops = @ + DefendTroops],
             gold |-> gold]

\* "Add building or wall" of processAIAction
ProcessPlace(terr, i, kind, id) ==
  IF kind = "wall"
  THEN IF terr[i].owner = NoOwner
       THEN [terr EXCEPT ![i].wall = TRUE, ![i].owner = id, ![i].troops = 0]
       ELSE terr
  ELSE IF terr[i].owner = id
       THEN [terr EXCEPT ![i].building = [type |-> kind, level |-> 1]]
       ELSE terr

\* case "build": if (aiPlayer.gold && aiPlayer.gold >= cost) { aiPlayer.gold -= cost; ... }
\* a variant of the build case that takes the cost before it looks the target up
ProcessBuildChargingFirst(terr, gold, d, id) ==
  IF d.target = NoRef \/ d.buildingType = NoKind
  THEN [territories |-> terr, gold |-> gold]
  ELSE
    LET buildIndex == FindIndex(terr, d.target)
        cost == buildingCosts[d.buildingType]
    IN IF gold # 0 /\ gold >= cost
       THEN [territories |-> IF buildIndex = 0 THEN terr
                             ELSE ProcessPlace(terr, buildIndex, d.buildingType, id),
             gold |-> gold - cost]
       ELSE [territories |-> terr, gold |-> gold]

ProcessBuild(terr, gold, d, id) ==
  IF d.target = NoRef \/ d.buildingType = NoKind
  THEN [territories |-> terr, gold |-> gold]
  ELSE
    LET buildIndex == FindIndex(terr, d.target)
        cost == buildingCosts[d.buildingType]
    IN IF buildIndex = 0
       THEN [territories |-> terr, gold |-> gold]
       ELSE IF gold # 0 /\ gold >= cost
            THEN [territories |-> ProcessPlace(terr, buildIndex, d.buildingType, id),
                  gold |-> gold - cost]
            ELSE [territories |-> terr, gold |-> gold]

processAIAction(terr, gold, d, id) ==
  CASE d.action = "attack" -> ProcessAttack(terr, gold, d, id)
    [] d.action = "defend" -> ProcessDefend(terr, gold, d, id)
    [] d.action = "build" -> ProcessBuild(terr, gold, d, id)

(***************************************************************************)
(* ai.ts: GameSimulator.executeAction(action, player), on this.territories *)
(* and player.gold.                                                        *)
(***************************************************************************)
\* a variant of the attack case that resolves every attack as a failed one
ExecuteAttackAlwaysFailing(terr, gold, a, id) ==
  IF a.source = NoRef \/ a.target = NoRef
  THEN [territories |-> terr, gold |-> gold]
  ELSE
    LET sourceIndex == FindIndex(terr, a.source)
        targetIndex == FindIndex(terr, a.target)
    IN IF sourceIndex = 0 \/ targetIndex = 0
       THEN [territories |-> terr, gold |-> gold]
       ELSE IF \/ terr[sourceIndex].owner # id
               \/ terr[sourceIndex].troops < SimMinAttackTroops
            THEN [territories |-> terr, gold |-> gold]
            ELSE
              LET attackingTroops == FloorPercent(terr[sourceIndex].troops, SimAttackPercent)
                  left == [terr EXCEPT ![sourceIndex].troops = @ - attackingTroops]
              IN [territories |-> [left EXCEPT ![targetIndex].troops = @ - attackingTroops],
                  gold |-> gold]

ExecuteAttack(terr, gold, a, id) ==
  IF a.source = NoRef \/ a.target = NoRef
  THEN [territories |-> terr, gold |-> gold]
  ELSE
    LET sourceIndex == FindIndex(terr, a.source)
        targetIndex == FindIndex(terr, a.target)
    IN IF sourceIndex = 0 \/ targetIndex = 0
       THEN [territories |-> terr, gold |-> gold]
       ELSE IF \/ terr[sourceIndex].owner # id
               \/ terr[sourceIndex].troops < SimMinAttackTroops
            THEN [territories |-> terr, gold |-> gold]
            ELSE
              LET attackingTroops == FloorPercent(terr[sourceIndex].troops, SimAttackPercent)
                  \* this.territories[sourceIndex].troops -= attackingTroops comes first;
                  \* target is the same object, read after that write
                  left == [terr EXCEPT ![sourceIndex].troops = @ - attackingTroops]
              IN IF attackingTroops > left[targetIndex].troops
                 THEN [territories |->
                         [left EXCEPT ![targetIndex].owner = id,
                                      ![targetIndex].troops = attackingTroops - @],
                       gold |-> gold]
                 ELSE [territories |->
                         [left EXCEPT ![targetIndex].troops = @ - attackingTroops],
                       gold |-> gold]

ExecuteDefend(terr, gold, a, id) ==
  IF a.target = NoRef
  THEN [territories |-> terr, gold |-> gold]
  ELSE
    LET defendIndex == FindIndex(terr, a.target)
    IN IF defendIndex = 0 \/ terr[defendIndex].owner # id
       THEN [territories |-> terr, gold |-> gold]
       ELSE [territories |-> [terr EXCEPT ![defendIndex].troops = @ + DefendTroops],
             gold |-> gold]

\* "Add building or wall" of executeAction
ExecutePlace(terr, i, kind, id) ==
  IF kind = "wall"
  THEN IF terr[i].owner = NoOwner
       THEN [terr EXCEPT ![i].wall = TRUE, ![i].owner = id, ![i].troops = 0]
       ELSE terr
  ELSE IF terr[i].owner = id
       THEN [terr EXCEPT ![i].building = [type |-> kind, level |-> 1]]
       ELSE terr

\* if ((player.gold || 0) < cost) return; player.gold = (player.gold || 0) - cost; ...
\* a variant of the build case that deducts the cost without testing the player's gold
ExecuteBuildOnCredit(terr, gold, a, id) ==
  IF a.target = NoRef \/ a.buildingType = NoKind
  THEN [territories |-> terr, gold |-> gold]
  ELSE
    LET buildIndex == FindIndex(terr, a.target)
        cost == buildingCosts[a.buildingType]
    IN IF buildIndex = 0
       THEN [territories |-> terr, gold |-> gold]
       ELSE [territories |-> ExecutePlace(terr, buildIndex, a.buildingType, id),
             gold |-> gold - cost]

ExecuteBuild(terr, gold, a, id) ==
  IF a.target = NoRef \/ a.buildingType = NoKind
  THEN [territories |-> terr, gold |-> gold]
  ELSE
    LET buildIndex == FindIndex(terr, a.target)
        cost == buildingCosts[a.buildingType]
    IN IF buildIndex = 0 \/ gold < cost
       THEN [territories |-> terr, gold |-> gold]
       ELSE [territories |-> ExecutePlace(terr, buildIndex, a.buildingType, id),
             gold |-> gold - cost]

executeAction(terr, gold, a, id) ==
  CASE a.action = "attack" -> ExecuteAttack(terr, gold, a, id)
    [] a.action = "defend" -> ExecuteDefend(terr, gold, a, id)
    [] a.action = "build" -> ExecuteBuild(terr, gold, a, id)

(***************************************************************************)
(* neuralAI: getLegalActions(territories, player).  The list is built in   *)
(* the order attacks, defends, builds, wall builds; it is represented by   *)
(* the set of its elements.                                                *)
(***************************************************************************)
\* if (source.troops < 5) continue
EnoughTroops(s) == s.troops >= MinAttackTroops

\* if (source.troops > target.troops) push
MayWin(s, t) == s.troops > t.troops

\* a variant that measures the distance per axis (the square of side 2 * range + 1)
NeuralAdjacentSquare(terr, i, range) ==
  {j \in DOMAIN terr :
     /\ (terr[j].x - terr[i].x) \in -range..range
     /\ (terr[j].y - terr[i].y) \in -range..range
     /\ Dist2(terr[j], terr[i]) > 0
     /\ ~terr[j].wall}

\* NeuralAI.findAdjacentTerritories (the class's own copy of the query)
NeuralAdjacent(terr, i, range) ==
  {j \in DOMAIN terr :
     /\ Dist2(terr[j], terr[i]) <= range * range
     /\ Dist2(terr[j], terr[i]) > 0
     /\ ~terr[j].wall}

\* NeuralAI.findNearbyEmptyTerritories
NeuralNearbyEmpty(terr, i, range) ==
  {j \in DOMAIN terr :
     /\ Dist2(terr[j], terr[i]) <= range * range
     /\ Dist2(terr[j], terr[i]) > 0
     /\ terr[j].owner = NoOwner
     /\ ~terr[j].wall}

\* "Attack actions"
LegalAttacks(terr, id) ==
  {Attack(Ref(terr[p[1]]), Ref(terr[p[2]])) :
     p \in {q \in OwnedBy(terr, id) \X DOMAIN terr :
              /\ EnoughTroops(terr[q[1]])
              /\ q[2] \in NeuralAdjacent(terr, q[1], DefaultRange)
              /\ terr[q[2]].owner # id
              /\ ~terr[q[2]].wall
              /\ MayWin(terr[q[1]], terr[q[2]])}}

\* neighbors.some((n) => n.owner && n.owner.id !== player.id)
NeuralBorder(terr, id) ==
  {i \in OwnedBy(terr, id) :
     \E n \in NeuralAdjacent(terr, i, DefaultRange) : terr[n].owner \notin {NoOwner, id}}

\* "Defend actions"
LegalDefends(terr, id) == {Defend(Ref(terr[i])) : i \in NeuralBorder(terr, id)}

\* a variant of the build actions that lists every kind once the cheapest is affordable
LegalBuildsUnpriced(terr, id, gold) ==
  IF gold >= buildingCosts["wall"]
  THEN
    LET buildableTerritories ==
          {i \in OwnedBy(terr, id) : terr[i].building = NoBuilding /\ ~terr[i].wall}
        emptyNearbyTerritories ==
          UNION {NeuralNearbyEmpty(terr, b, DefaultRange) : b \in NeuralBorder(terr, id)}
    IN {Build(Ref(terr[i]), k) : i \in buildableTerritories, k \in BuildingKinds \ {"wall"}}
       \cup {Build(Ref(terr[i]), "wall") : i \in emptyNearbyTerritories}
  ELSE {}

\* "Build actions"
LegalBuilds(terr, id, gold) ==
  IF gold >= buildingCosts["wall"]
  THEN
    LET buildableTerritories ==
          {i \in OwnedBy(terr, id) : terr[i].building = NoBuilding /\ ~terr[i].wall}
        emptyNearbyTerritories ==
          UNION {NeuralNearbyEmpty(terr, b, DefaultRange) : b \in NeuralBorder(terr, id)}
    IN {Build(Ref(terr[i]), k) :
          i \in buildableTerritories,
          k \in {kk \in BuildingKinds : gold >= buildingCosts[kk] /\ kk # "wall"}}
       \cup {Build(Ref(terr[i]), "wall") : i \in emptyNearbyTerritories}
  ELSE {}

getLegalActions(terr, id, gold) ==
  LegalAttacks(terr, id) \cup LegalDefends(terr, id) \cup LegalBuilds(terr, id, gold)

(***************************************************************************)
(* neuralAI: calculateReward(prevState, currentState), in tenths (the      *)
(* weights 10, 0.1, 0.5 and 5 times ten).                                  *)
(***************************************************************************)
RECURSIVE SumTroops(_, _)
SumTroops(terr, S) ==
  IF S = {} THEN 0
  ELSE LET i == Min(S) IN terr[i].troops + SumTroops(terr, S \ {i})

BuildingCount(terr, id) == Cardinality({i \in OwnedBy(terr, id) : terr[i].building # NoBuilding})

\* a reward that weighs a troop like a territory
calculateRewardHeavyTroops(prevTerr, prevId, prevGold, curTerr, curId, curGold) ==
  LET territoryDiff == Cardinality(OwnedBy(curTerr, curId)) - Cardinality(OwnedBy(prevTerr, prevId))
      goldDiff == curGold - prevGold
      troopDiff == SumTroops(curTerr, OwnedBy(curTerr, curId))
                     - SumTroops(prevTerr, OwnedBy(prevTerr, prevId))
      buildingDiff == BuildingCount(curTerr, curId) - BuildingCount(prevTerr, prevId)
  IN territoryDiff * 100 + goldDiff * 1 + troopDiff * 100 + buildingDiff * 50

calculateReward(prevTerr, prevId, prevGold, curTerr, curId, curGold) ==
  LET territoryDiff == Cardinality(OwnedBy(curTerr, curId)) - Cardinality(OwnedBy(prevTerr, prevId))
      goldDiff == curGold - prevGold
      troopDiff == SumTroops(curTerr, OwnedBy(curTerr, curId))
                     - SumTroops(prevTerr, OwnedBy(prevTerr, prevId))
      buildingDiff == BuildingCount(curTerr, curId) - BuildingCount(prevTerr, prevId)
  IN territoryDiff * 100 + goldDiff * 1 + troopDiff * 5 + buildingDiff * 50

(***************************************************************************)
(* neuralAI: addExperience.  The replay memory is the array replayMemory.  *)
(***************************************************************************)
\* private replayMemorySize = 10000
replayMemorySize == 10000

\* private batchSize = 32
batchSize == 32

\* a replay memory that drops the experience just pushed instead of the oldest one
addExperienceDroppingNewest(memory, e, size) ==
  IF Len(memory) >= size THEN memory ELSE Append(memory, e)

\* buildingTypeMap of actionToIndices
buildingTypeMap ==
  [fort |-> 0, farm |-> 1, tower |-> 2, barracks |-> 3, wall |-> 4, mine |-> 5, market |-> 6]

\* actionToIndices(action, territories): [actionTypeIndex, sourceIndex, targetIndex,
\* buildingTypeIndex], -1 for a part the action does not have
actionToIndices(a, terr) ==
  <<IF a.action = "attack" THEN 0 ELSE IF a.action = "defend" THEN 1 ELSE 2,
    IF a.source = NoRef THEN -1 ELSE FindIndex(terr, a.source) - 1,
    IF a.target = NoRef THEN -1 ELSE FindIndex(terr, a.target) - 1,
    IF a.buildingType = NoKind THEN -1 ELSE buildingTypeMap[a.buildingType]>>

\* this.replayMemory.push(e); if (length > size) this.replayMemory.shift()
addExperienceTo(memory, e, size) ==
  LET pushed == Append(memory, e)
  IN IF Len(pushed) > size THEN Tail(pushed) ELSE pushed

(***************************************************************************)
(* neuralAI: the models, epsilon and trainOnBatch.  Epsilon is a fixed     *)
(* point number in units of 10^-9.  The weights of a network are named by  *)
(* a number: createModel, loadLayersModel and every fit() produce weights  *)
(* that did not exist before (n.weights counts them); setWeights copies a  *)
(* name.                                                                   *)
(***************************************************************************)
\* private epsilon = 1.0
InitialEpsilon == 1000000000

\* private epsilonMin = 0.1
epsilonMin == InitialEpsilon \div 10

\* this.epsilon *= this.epsilonDecay (0.995 = 1 - 1/200), rounded to the nearest unit
epsilonDecay(epsilon) == epsilon - (epsilon + 100) \div 200

\* train.tsx: INPUT_SIZE
TrainInputSize == 500

\* private updateFrequency = 10
updateFrequency == 10

\* private model: tf.LayersModel | null = null
NoModel == -1

\* the fields of a new NeuralAI; power is a history variable, 0.995^trainingStep
NewNeuralAI ==
  [model |-> NoModel, targetModel |-> NoModel, epsilon |-> InitialEpsilon,
   trainingStep |-> 0, inputSize |-> 0, weights |-> 0, power |-> InitialEpsilon,
   isInitialized |-> FALSE]

\* updateTargetModel()
updateTargetModel(n) ==
  IF n.model = NoModel \/ n.targetModel = NoModel THEN n
  ELSE [n EXCEPT !.targetModel = n.model]

\* initialize(inputSize, outputSize): two createModel calls, then updateTargetModel
initialize(n, inputSize) ==
  updateTargetModel([n EXCEPT !.inputSize = inputSize,
                              !.model = n.weights + 1,
                              !.targetModel = n.weights + 2,
                              !.weights = n.weights + 2])

\* loadModel(path): tf.loadLayersModel resolves (loaded) or rejects; the rejection is
\* caught and leaves the fields as they are
loadModel(n, loaded) ==
  IF ~loaded THEN n
  ELSE IF n.inputSize # 0
       THEN updateTargetModel([n EXCEPT !.model = n.weights + 1,
                                        !.targetModel = n.weights + 2,
                                        !.weights = n.weights + 2])
       ELSE [n EXCEPT !.model = n.weights + 1, !.weights = n.weights + 1]

\* NeuralAI.isReady()
isReady(n) == n.model # NoModel

\* NeuralAIPlayer.initialize(): loadModel catches the rejection of tf.loadLayersModel
\* itself and returns normally, so the try block always runs to its end and the catch
\* block, which would create a new model, is never entered
playerInitialize(n, loaded) ==
  IF n.isInitialized THEN n
  ELSE [loadModel(n, loaded) EXCEPT !.isInitialized = TRUE]

\* trainOnBatch, the test it starts with: fewer experiences than a batch or a model missing
CannotTrain(memory, n, size) ==
  Len(memory) < size \/ n.model = NoModel \/ n.targetModel = NoModel

\* a target network that is synced after every batch update
SyncAlways(trainingStep) == TRUE

\* "Update target network periodically"
SyncDue(trainingStep) == trainingStep % updateFrequency = 0

\* "Decay epsilon"
DecayedEpsilon(epsilon) == IF epsilon > epsilonMin THEN epsilonDecay(epsilon) ELSE epsilon

\* trainOnBatch after `await this.model.fit(...)`: the live network has new weights;
\* epsilon decays, trainingStep++ and the target network is synced when due
TrainFitted(n) ==
  LET fitted == [n EXCEPT !.model = n.weights + 1,
                          !.weights = n.weights + 1,
                          !.epsilon = DecayedEpsilon(n.epsilon),
                          !.trainingStep = n.trainingStep + 1,
                          !.power = epsilonDecay(n.power)]
  IN IF SyncDue(fitted.trainingStep) THEN updateTargetModel(fitted) ELSE fitted

\* a trainOnBatch that starts without testing the size of the replay buffer
TrainStartAnyBuffer(lp, memory, n, size) ==
  IF n.model = NoModel \/ n.targetModel = NoModel
  THEN [lp EXCEPT !.tpc = "return"]
  ELSE [lp EXCEPT !.tpc = "nextQ", !.nextQFrom = n.targetModel]

\* trainOnBatch from its call to its first await: it returns at once when it cannot
\* train; else it samples a batch and asks the target network for the next-state values.
\* lp: the invocation that awaits it
TrainStart(lp, memory, n, size) ==
  IF CannotTrain(memory, n, size)
  THEN [lp EXCEPT !.tpc = "return"]
  ELSE [lp EXCEPT !.tpc = "nextQ", !.nextQFrom = n.targetModel]

(***************************************************************************)
(* ai.ts: GameSimulator.  Math.random() is a value r / 100 drawn from      *)
(* RandomDraws; Math.floor(Math.random() * n) is RandomIndex(r, n).        *)
(***************************************************************************)
\* the n-th element (from 0) of a filtered array given by its index set
RECURSIVE Nth(_, _)
Nth(S, n) == IF n = 0 THEN Min(S) ELSE Nth(S \ {Min(S)}, n - 1)

RandomIndex(r, n) == (r * n) \div 100

\* the first element after a stable sort((a, b) => a.troops - b.troops)
Weakest(terr, S) ==
  Min({i \in S : \A j \in S : terr[i].troops <= terr[j].troops})

\* GameSimulator.findAdjacentTerritories(territory, range = 2)
SimAdjacent(terr, i, range) ==
  {j \in DOMAIN terr :
     /\ Dist2(terr[j], terr[i]) <= range * range
     /\ Dist2(terr[j], terr[i]) > 0
     /\ ~terr[j].wall}

\* the options arrays of executeAITurn's build mode
BuildOptions(availableGold) ==
  IF availableGold >= 200
  THEN <<"tower", "market", "barracks", "farm", "fort", "mine">>
  ELSE IF availableGold >= 150
       THEN <<"farm", "mine", "fort", "barracks">>
       ELSE IF availableGold >= 100
            THEN <<"fort", "barracks">>
            ELSE <<"wall">>

\* the values of Math.random() explored, in hundredths
RandomDraws == {0, 50, 99}

NoAction == [action |-> "none", source |-> NoRef, target |-> NoRef, buildingType |-> NoKind]

\* neuralAIPlayer.ts: NeuralAIPlayer.makeDecision(territories, player, gameDay): the
\* values it can return; null (NoAction) when there is no legal action, else the legal
\* action chooseAction picks, or null from the catch when chooseAction throws
makeDecision(terr, id, gold) ==
  LET legalActions == getLegalActions(terr, id, gold)
  IN IF legalActions = {} THEN {NoAction} ELSE legalActions \cup {NoAction}

\* the action executeAITurn(player) hands to executeAction (NoAction: none);
\* r is the value of its Math.random() calls
AITurnAction(terr, gold, id, r) ==
  LET ownedTerritories == OwnedBy(terr, id)
      attackCandidates == {i \in ownedTerritories : terr[i].troops >= MinAttackTroops}
  IN IF ownedTerritories = {} THEN NoAction
     ELSE IF attackCandidates # {} /\ r < 70
     THEN
       LET source == Nth(attackCandidates, RandomIndex(r, Cardinality(attackCandidates)))
           targetableTerritories ==
             {j \in SimAdjacent(terr, source, DefaultRange) :
                /\ ~terr[j].wall
                /\ terr[j].owner # id
                /\ terr[j].troops < terr[source].troops}
       IN IF targetableTerritories = {} THEN NoAction
          ELSE Attack(Ref(terr[source]), Ref(terr[Weakest(terr, targetableTerritories)]))
     ELSE IF gold >= buildingCosts["wall"]
     THEN
       LET buildableTerritories ==
             {i \in ownedTerritories : terr[i].building = NoBuilding /\ ~terr[i].wall}
           options == BuildOptions(gold)
       IN IF buildableTerritories = {} THEN NoAction
          ELSE Build(Ref(terr[Nth(buildableTerritories,
                                  RandomIndex(r, Cardinality(buildableTerritories)))]),
                     options[RandomIndex(r, Len(options)) + 1])
     ELSE Defend(Ref(terr[Weakest(terr, ownedTerritories)]))

executeAITurn(terr, gold, id, r) ==
  LET a == AITurnAction(terr, gold, id, r)
  IN IF a = NoAction THEN [territories |-> terr, gold |-> gold]
     ELSE executeAction(terr, gold, a, id)

\* the ids of this.players in array order: initializePlayers(3)
SimPlayers == <<"neural", "ai1", "ai2">>

SimPlayerIds == {SimPlayers[i] : i \in DOMAIN SimPlayers}

\* the AI opponents' turns of one tick: for (i = 1; i < players.length; i++) executeAITurn
RECURSIVE OpponentTurns(_, _, _, _)
OpponentTurns(terr, pl, i, r) ==
  IF i > Len(SimPlayers) THEN [territories |-> terr, players |-> pl]
  ELSE LET id == SimPlayers[i]
           res == executeAITurn(terr, pl[id].gold, id, r)
       IN OpponentTurns(res.territories, [pl EXCEPT ![id].gold = res.gold], i + 1, r)

\* goldIncome / troopGrowth of updateGameState: base plus the building bonuses
CountBuildings(terr, id, kind) ==
  Cardinality({i \in OwnedBy(terr, id) : terr[i].building.type = kind})

goldIncome(terr, id) == 10 + 15 * CountBuildings(terr, id, "mine") + 25 * CountBuildings(terr, id, "market")

troopGrowth(terr, id) == 5 + 3 * CountBuildings(terr, id, "farm") + 5 * CountBuildings(terr, id, "barracks")

\* "Add some troops to a random territory": the territory chosen for one player
GrowthTarget(terr, id, r) ==
  Nth(OwnedBy(terr, id), RandomIndex(r, Cardinality(OwnedBy(terr, id))))

\* updateGameState(): this.players.forEach(...), r the value of its Math.random() calls
RECURSIVE updateGameState(_, _, _, _)
updateGameState(terr, pl, i, r) ==
  IF i > Len(SimPlayers) THEN [territories |-> terr, players |-> pl]
  ELSE
    LET id == SimPlayers[i]
        grown == [pl EXCEPT ![id].territory = Cardinality(OwnedBy(terr, id)),
                            ![id].gold = @ + goldIncome(terr, id),
                            ![id].troops = @ + troopGrowth(terr, id)]
        fed == IF OwnedBy(terr, id) = {} THEN terr
               ELSE [terr EXCEPT ![GrowthTarget(terr, id, r)].troops = @ + 1]
    IN updateGameState(fed, grown, i + 1, r)

\* Object.keys(territoryCounts)
Owners(terr) == {terr[i].owner : i \in DOMAIN terr} \ {NoOwner}

\* checkGameOver()
checkGameOver(terr, gameDay, maxGameDays) ==
  Cardinality(Owners(terr)) <= 1 \/ gameDay >= maxGameDays

\* determineWinner(): the first owner, in order of first appearance, with the most territories
determineWinner(terr) ==
  IF Owners(terr) = {} THEN NoOwner
  ELSE LET most == {o \in Owners(terr) :
                      \A p \in Owners(terr) :
                        Cardinality(OwnedBy(terr, o)) >= Cardinality(OwnedBy(terr, p))}
       IN terr[Min({i \in DOMAIN terr : terr[i].owner \in most})].owner

(***************************************************************************)
(* page.tsx: handleCanvasClick at tile (x, y).  The client state is the    *)
(* grid, playerGold and                                                    *)
(*   ui = [hasClaimedTerritory, buildingMode, selectedBuildingType].       *)
(* The result is [territories, gold, ui] after the handler.                *)
(***************************************************************************)
Human == "player1"

\* "If player hasn't claimed first territory yet"
ClickClaim(terr, gold, ui, clickedIndex) ==
  [territories |->
     [i \in DOMAIN terr |->
        IF Dist2(terr[i], terr[clickedIndex]) <= ClaimRadius * ClaimRadius
        THEN [terr[i] EXCEPT !.owner = Human,
                             !.troops = StartTroops,
                             !.building = IF i = clickedIndex
                                          THEN [type |-> "barracks", level |-> 1]
                                          ELSE @]
        ELSE terr[i]],
   gold |-> gold,
   ui |-> [ui EXCEPT !.hasClaimedTerritory = TRUE]]

\* "Handle building mode"
ClickBuild(terr, gold, ui, clickedIndex) ==
  LET kind == ui.selectedBuildingType
      same == [territories |-> terr, gold |-> gold, ui |-> ui]
      leave == [ui EXCEPT !.buildingMode = FALSE, !.selectedBuildingType = NoKind]
  IN IF kind = "wall"
     THEN IF terr[clickedIndex].owner = NoOwner /\ gold >= buildingCosts[kind]
          THEN [territories |-> [terr EXCEPT ![clickedIndex].wall = TRUE,
                                             ![clickedIndex].owner = Human,
                                             ![clickedIndex].troops = 0],
                gold |-> gold - buildingCosts[kind],
                ui |-> leave]
          ELSE same
     ELSE IF /\ terr[clickedIndex].owner = Human
             /\ terr[clickedIndex].building = NoBuilding
             /\ gold >= buildingCosts[kind]
          THEN [territories |-> [terr EXCEPT ![clickedIndex].building =
                                               [type |-> kind, level |-> 1]],
                gold |-> gold - buildingCosts[kind],
                ui |-> leave]
          ELSE same

\* territories.findIndex((t) => t.isSelected); 0 stands for -1
SelectedIndex(terr) ==
  LET S == {i \in DOMAIN terr : terr[i].isSelected}
  IN IF S = {} THEN 0 ELSE Min(S)

\* hasRangeBonus: the level of a tower on the selected territory
RangeBonus(t) == IF t.building.type = "tower" THEN t.building.level ELSE 0

\* "Moving troops between own territories": target += troopsToMove, then selected -= troopsToMove
\* a variant of the move that sends every troop of the selected territory
ClickMoveWhole(terr, s, t) ==
  LET troopsToMove == terr[s].troops
  IN IF troopsToMove > 0
     THEN LET added == [terr EXCEPT ![t].troops = @ + troopsToMove]
          IN [added EXCEPT ![s].troops = @ - troopsToMove]
     ELSE terr

ClickMove(terr, s, t) ==
  LET troopsToMove == FloorPercent(terr[s].troops, MovePercent)
  IN IF troopsToMove > 0
     THEN LET added == [terr EXCEPT ![t].troops = @ + troopsToMove]
          IN [added EXCEPT ![s].troops = @ - troopsToMove]
     ELSE terr

\* "Attacking enemy or neutral territory"
ClickAttack(terr, s, t) ==
  LET defenseBonus == DefenseBonus(terr[t])
      effectiveDefense == EffectiveDefense(terr[t])
      attackingTroops == FloorPercent(terr[s].troops, ClickAttackPercent)
  IN IF attackingTroops > 0
     THEN IF attackingTroops > effectiveDefense
          THEN LET taken == [terr EXCEPT ![t].owner = Human,
                                         ![t].troops = attackingTroops - @]
                   paid == [taken EXCEPT ![s].troops = @ - attackingTroops]
               IN [paid EXCEPT ![t].building = NoBuilding]
          ELSE LET hit == [terr EXCEPT ![t].troops = @ - (attackingTroops \div (1 + defenseBonus))]
               IN [hit EXCEPT ![s].troops = @ - attackingTroops]
     ELSE terr

\* "Regular territory selection/attack logic"
ClickSelect(terr, gold, ui, clickedIndex) ==
  LET selectedIndex == SelectedIndex(terr)
  IN IF selectedIndex = 0
     THEN [territories |-> IF terr[clickedIndex].owner = Human
                           THEN [terr EXCEPT ![clickedIndex].isSelected = TRUE]
                           ELSE terr,
           gold |-> gold, ui |-> ui]
     ELSE
       LET acted ==
             IF terr[clickedIndex].wall THEN terr
             ELSE IF Dist2(terr[selectedIndex], terr[clickedIndex])
                       <= (DefaultRange + RangeBonus(terr[selectedIndex]))
                            * (DefaultRange + RangeBonus(terr[selectedIndex]))
                  THEN IF terr[clickedIndex].owner = Human
                       THEN ClickMove(terr, selectedIndex, clickedIndex)
                       ELSE ClickAttack(terr, selectedIndex, clickedIndex)
                  ELSE terr
       IN [territories |-> [acted EXCEPT ![selectedIndex].isSelected = FALSE],
           gold |-> gold, ui |-> ui]

handleCanvasClick(terr, gold, ui, x, y) ==
  LET clickedIndex == FindIndex(terr, [x |-> x, y |-> y])
  IN IF clickedIndex = 0 THEN [territories |-> terr, gold |-> gold, ui |-> ui]
     ELSE IF ~ui.hasClaimedTerritory THEN ClickClaim(terr, gold, ui, clickedIndex)
     ELSE IF ui.buildingMode /\ ui.selectedBuildingType # NoKind
          THEN ClickBuild(terr, gold, ui, clickedIndex)
          ELSE ClickSelect(terr, gold, ui, clickedIndex)

(***************************************************************************)
(* ai.ts: makeAIDecisions.  The result of a strategy depends on the        *)
(* Math.random() calls it makes, so a strategy is the set of the decisions *)
(* it can return; null is NoAction.  Array.prototype.sort is stable: the   *)
(* first element of a filtered array sorted by a key is the element of     *)
(* least key and, among those, of least index.                             *)
(***************************************************************************)
Personalities == {"aggressive", "defensive", "expansionist", "builder"}

\* neighbors.filter((n) => n.owner && n.owner.id !== aiId)
EnemyNeighbors(terr, i, id) ==
  {j \in findAdjacentTerritories(terr, i, DefaultRange) : terr[j].owner \notin {NoOwner, id}}

\* the owned cells with an enemy neighbour (calculateThreatLevel, defensiveStrategy)
BorderTerritories(terr, id) ==
  {i \in OwnedBy(terr, id) : EnemyNeighbors(terr, i, id) # {}}

\* maxEnemyTroops > ourTroops
Threatened(terr, id) ==
  {i \in BorderTerritories(terr, id) :
     \E j \in EnemyNeighbors(terr, i, id) : terr[j].troops > terr[i].troops}

\* threatenedTerritories / borderTerritories > num / den (0 when there is no border)
ThreatAbove(terr, id, num, den) ==
  /\ BorderTerritories(terr, id) # {}
  /\ Cardinality(Threatened(terr, id)) * den > num * Cardinality(BorderTerritories(terr, id))

\* ownedTerritories.filter((t) => !t.building && !t.wall)
NonBuilding(terr, id) ==
  {i \in OwnedBy(terr, id) : terr[i].building = NoBuilding /\ ~terr[i].wall}

defensiveStrategy(terr, id, gold) ==
  LET border == BorderTerritories(terr, id)
      weakest == Weakest(terr, border)
      fort == IF gold >= 100 /\ terr[weakest].building = NoBuilding
              THEN {Build(Ref(terr[weakest]), "fort")} ELSE {}
      walled == {b \in border : findNearbyEmptyTerritories(terr, b, DefaultRange) # {}}
  IN IF border = {} THEN {NoAction}
     ELSE fort \cup
          (IF gold >= 80 /\ walled # {}
           THEN {Build(Ref(terr[e]), "wall") :
                   e \in findNearbyEmptyTerritories(terr, Weakest(terr, walled), DefaultRange)}
           ELSE {Defend(Ref(terr[weakest]))})

\* the number of owned cells holding a building of this kind
CountOf(terr, id, kind) ==
  Cardinality({i \in OwnedBy(terr, id) : terr[i].building.type = kind})

\* count < ownedTerritories.length * percent / 100
Below(count, owned, percent) == count * 100 < owned * percent

\* buildingStrategy: the building kinds it can choose
BuildingChoice(terr, id, gold, borders, wallable) ==
  LET n == Cardinality(OwnedBy(terr, id))
      count(kind) == CountOf(terr, id, kind)
      fallback == IF gold >= 300 THEN {"market", "tower", "barracks", "fort"}
                  ELSE IF gold >= 150 THEN {"barracks", "mine", "farm", "fort"}
                  ELSE IF gold >= 120 THEN {"barracks"}
                  ELSE IF gold >= 100 THEN {"fort"}
                  ELSE {"wall"}
  IN IF (count("mine") < 2 \/ Below(count("mine"), n, 15)) /\ gold >= 150 THEN {"mine"}
     ELSE IF Below(count("barracks"), n, 40) /\ gold >= 120 THEN {"barracks"}
     ELSE IF Below(count("market"), n, 25) /\ gold >= 200 THEN {"market"}
     ELSE IF Below(count("farm"), n, 30) /\ gold >= 150 THEN {"farm"}
     ELSE IF Below(count("fort"), borders, 40) /\ gold >= 100 THEN {"fort"}
     ELSE IF Below(count("tower"), n, 20) /\ gold >= 200 THEN {"tower"}
     ELSE IF wallable THEN {"wall"} \cup fallback
     ELSE fallback

\* the owned cells with a neighbour that is not the player's (buildingStrategy)
BuildingBorders(terr, id) ==
  {i \in OwnedBy(terr, id) :
     \E j \in findAdjacentTerritories(terr, i, DefaultRange) : terr[j].owner # id}

\* wallableTerritories
Wallable(terr, borderTerritories) ==
  UNION {findNearbyEmptyTerritories(terr, b, DefaultRange) : b \in borderTerritories}

\* the cells targetTerritory is drawn from
BuildingTargets(kind, emptyTerritories, emptyBorderTerritories, wallableTerritories) ==
  IF kind = "fort" /\ emptyBorderTerritories # {} THEN emptyBorderTerritories
  ELSE IF kind = "wall" /\ wallableTerritories # {} THEN wallableTerritories
  ELSE emptyTerritories

BuildingDecisions(terr, id, gold, emptyTerritories, borderTerritories, wallableTerritories) ==
  IF gold < 80 \/ emptyTerritories = {} THEN {NoAction}
  ELSE {Build(Ref(terr[c[2]]), c[1]) :
          c \in {k \in BuildingChoice(terr, id, gold, Cardinality(borderTerritories),
                                      wallableTerritories # {}) \X DOMAIN terr :
                   k[2] \in BuildingTargets(k[1], emptyTerritories,
                                            borderTerritories \cap emptyTerritories,
                                            wallableTerritories)}}

buildingStrategy(terr, id, gold) ==
  UNION {BuildingDecisions(terr, id, gold, emptyTerritories, borderTerritories,
                           wallableTerritories) :
           emptyTerritories \in {NonBuilding(terr, id)},
           borderTerritories \in {BuildingBorders(terr, id)},
           wallableTerritories \in {Wallable(terr, BuildingBorders(terr, id))}}

\* neighbors.filter((n) => !n.wall && (!n.owner || n.owner.id !== id) && n.troops < territory.troops)
Targetable(terr, i, id) ==
  {j \in findAdjacentTerritories(terr, i, DefaultRange) :
     ~terr[j].wall /\ terr[j].owner # id /\ terr[j].troops < terr[i].troops}

expansionStrategy(terr, id, gold) ==
  LET attackCandidates == {i \in OwnedBy(terr, id) : terr[i].troops >= 5}
      attackers == {i \in attackCandidates : Targetable(terr, i, id) # {}}
      nonBuildingTerritories == NonBuilding(terr, id)
  IN IF attackCandidates = {} THEN {NoAction}
     ELSE IF attackers # {}
          THEN {Attack(Ref(terr[Min(attackers)]),
                       Ref(terr[Weakest(terr, Targetable(terr, Min(attackers), id))]))}
          ELSE (IF gold >= 120 /\ nonBuildingTerritories # {}
                THEN {Build(Ref(terr[Min(nonBuildingTerritories)]), "barracks")} ELSE {})
               \cup
               (IF gold >= 150 /\ nonBuildingTerritories # {}
                THEN {Build(Ref(terr[Min(nonBuildingTerritories)]), "mine")} ELSE {})
               \cup buildingStrategy(terr, id, gold)

\* building?.type === "fort" ? troops * 2 : troops
AggressiveDefense(t) == IF t.building.type = "fort" THEN t.troops * 2 ELSE t.troops

\* playerTerritories within 2 + hasRangeBonus of the candidate
TargetsInRange(terr, i) ==
  LET attackRange == DefaultRange + (IF terr[i].building.type = "tower" THEN 1 ELSE 0)
  IN {j \in DOMAIN terr :
        /\ terr[j].owner = Human /\ ~terr[j].wall
        /\ Dist2(terr[i], terr[j]) <= attackRange * attackRange}

\* targetsInRange sorted by defense, [0]
WeakestDefense(terr, S) ==
  CHOOSE i \in S : \A j \in S :
    \/ AggressiveDefense(terr[i]) < AggressiveDefense(terr[j])
    \/ (AggressiveDefense(terr[i]) = AggressiveDefense(terr[j]) /\ i <= j)

aggressiveStrategy(terr, id, gold) ==
  LET attackCandidates == {i \in OwnedBy(terr, id) : terr[i].troops >= 8}
      playerTerritories == {j \in DOMAIN terr : terr[j].owner = Human /\ ~terr[j].wall}
      \* territory.troops > targetDefense * 1.2
      attackers ==
        {i \in attackCandidates :
           /\ TargetsInRange(terr, i) # {}
           /\ terr[i].troops * 10 >
                AggressiveDefense(terr[WeakestDefense(terr, TargetsInRange(terr, i))]) * 12}
      nonBuildingTerritories == NonBuilding(terr, id)
  IN IF attackCandidates = {} THEN {NoAction}
     ELSE IF playerTerritories = {} THEN expansionStrategy(terr, id, gold)
     ELSE IF attackers # {}
          THEN {Attack(Ref(terr[Min(attackers)]),
                       Ref(terr[WeakestDefense(terr, TargetsInRange(terr, Min(attackers)))]))}
          ELSE IF gold >= 200 /\ nonBuildingTerritories # {}
               THEN {Build(Ref(terr[Min(nonBuildingTerritories)]), "tower")}
               ELSE {NoAction}

\* balancedStrategy for a roll that passes the tests `building` (roll < 0.45), `defensive`
\* (roll < 0.3 + threatLevel * 0.4) and `expansion` (roll < 0.6 || gameDay < 10); B, D and E
\* are the decisions of buildingStrategy, defensiveStrategy and expansionStrategy
BalancedFor(B, D, E, building, defensive, expansion) ==
  LET past1 == ~building \/ NoAction \in B
      past2 == past1 /\ (~defensive \/ NoAction \in D)
      past3 == past2 /\ (~expansion \/ NoAction \in E)
      past4 == past3 /\ NoAction \in B
  IN (IF building THEN B \ {NoAction} ELSE {})
       \cup (IF past1 /\ defensive THEN D \ {NoAction} ELSE {})
       \cup (IF past2 /\ expansion THEN E \ {NoAction} ELSE {})
       \cup (IF past3 THEN B \ {NoAction} ELSE {})
       \cup (IF past4 THEN E ELSE {})

\* the rolls of balancedStrategy: 0.3 + threatLevel * 0.4 is above 0.45 when
\* threatLevel > 3/8 (`above`) and below it when threatLevel < 3/8 (`below`)
BalancedRolls(B, D, E, above, below, early) ==
  BalancedFor(B, D, E, TRUE, TRUE, TRUE)
    \cup (IF above THEN BalancedFor(B, D, E, FALSE, TRUE, TRUE) ELSE {})
    \cup (IF below THEN BalancedFor(B, D, E, TRUE, FALSE, TRUE) ELSE {})
    \cup BalancedFor(B, D, E, FALSE, FALSE, TRUE)
    \cup BalancedFor(B, D, E, FALSE, FALSE, early)

balancedStrategy(terr, id, gold, gameDay) ==
  UNION {BalancedRolls(B, D, E, above, below, gameDay < 10) :
           B \in {buildingStrategy(terr, id, gold)},
           D \in {defensiveStrategy(terr, id, gold)},
           E \in {expansionStrategy(terr, id, gold)},
           above \in {ThreatAbove(terr, id, 3, 8)},
           below \in {\/ BorderTerritories(terr, id) = {}
                       \/ Cardinality(Threatened(terr, id)) * 8
                            < 3 * Cardinality(BorderTerritories(terr, id))}}

\* a dispatch that tests the builder branch before the expansion branch
StrategyBuilderFirst(terr, id, personality, gameDay) ==
  IF OwnedBy(terr, id) = {} THEN "none"
  ELSE IF ThreatAbove(terr, id, 7, 10) THEN "defensive"
  ELSE IF personality = "builder" \/ Cardinality(OwnedBy(terr, id)) > 15 THEN "building"
  ELSE IF gameDay < 5 \/ personality = "expansionist" THEN "expansion"
  ELSE IF personality = "aggressive" THEN "aggressive"
  ELSE "balanced"

\* the strategy makeAIDecisions dispatches to ("none": return null)
Strategy(terr, id, personality, gameDay) ==
  IF OwnedBy(terr, id) = {} THEN "none"
  ELSE IF ThreatAbove(terr, id, 7, 10) THEN "defensive"
  ELSE IF gameDay < 5 \/ personality = "expansionist" THEN "expansion"
  ELSE IF personality = "builder" \/ Cardinality(OwnedBy(terr, id)) > 15 THEN "building"
  ELSE IF personality = "aggressive" THEN "aggressive"
  ELSE "balanced"

makeAIDecisions(terr, id, gold, personality, gameDay) ==
  LET strategy == Strategy(terr, id, personality, gameDay)
  IN IF strategy = "none" THEN {NoAction}
     ELSE IF strategy = "defensive" THEN defensiveStrategy(terr, id, gold)
     ELSE IF strategy = "expansion" THEN expansionStrategy(terr, id, gold)
     ELSE IF strategy = "building" THEN buildingStrategy(terr, id, gold)
     ELSE IF strategy = "aggressive" THEN aggressiveStrategy(terr, id, gold)
     ELSE balancedStrategy(terr, id, gold, gameDay)

(***************************************************************************)
(* page.tsx: the timers of Home.  Times are in tenths of a second (the     *)
(* timer adds 0.1 per tick).  The client's timer state is                  *)
(*   client = [gameStarted, gameTime, lastTroopUpdateTime, gameDay,        *)
(*             nextEventDay, eventActive, currentEvent, timeouts,          *)
(*             personality, ...]                                           *)
(* with personality the aiPlayers' personalities and timeouts the number   *)
(* of pending setTimeout(() => setEventActive(false)) callbacks.  A state  *)
(* of the client is [territories, players, client]; playerGold and         *)
(* playerTroops are the gold and troops of players[Human], aiPlayer.gold   *)
(* the gold of players[id].                                                *)
(***************************************************************************)
AIPlayers == <<"ai1", "ai2", "ai3">>

\* troops are updated "every 3 seconds"
GrowthInterval == 30

\* the troop update made due one tick early
GrowthDueEarly(gameTime, lastTroopUpdateTime) ==
  gameTime - lastTroopUpdateTime >= GrowthInterval - 1

\* gameTime - lastTroopUpdateTime >= 3
GrowthDue(gameTime, lastTroopUpdateTime) == gameTime - lastTroopUpdateTime >= GrowthInterval

\* buildingTypes.mine.goldBonus, buildingTypes.market.goldBonus
MineGoldBonus == 5

MarketGoldBonus == 10

EventNames == {"Resource Boom", "Supply Shortage", "Military Parade"}

\* setPlayerTroops and setPlayerGold of the troop update
PlayerGrowth(terr, p, c) ==
  LET len == Cardinality(OwnedBy(terr, Human))
      barracks == CountOf(terr, Human, "barracks")
      farmCount == CountOf(terr, Human, "farm")
      eventMultiplier == IF c.eventActive /\ c.currentEvent = "Resource Boom" THEN 2 ELSE 1
      \* baseGrowth * (1 + farmCount * 0.01 * length) * eventMultiplier, floored
      totalGrowth == (barracks * 3 * (100 + farmCount * len) * eventMultiplier) \div 100
      \* floor(10 + length * 0.5 + mines * goldBonus + markets * goldBonus)
      totalGoldGrowth == (20 + len) \div 2 + CountOf(terr, Human, "mine") * MineGoldBonus
                           + CountOf(terr, Human, "market") * MarketGoldBonus
  IN [p EXCEPT !.troops = @ + totalGrowth, !.gold = @ + totalGoldGrowth]

\* "Process player territories": troops += 1 + level on the player's barracks
PlayerBarracksGrowth(terr) ==
  [i \in DOMAIN terr |->
     IF terr[i].owner = Human /\ terr[i].building.type = "barracks"
     THEN [terr[i] EXCEPT !.troops = @ + 1 + terr[i].building.level]
     ELSE terr[i]]

\* "Also give base troop growth to AI territories with barracks"
AIBarracksGrowth(terr, id) ==
  [i \in DOMAIN terr |->
     IF terr[i].owner = id /\ terr[i].building.type = "barracks"
     THEN [terr[i] EXCEPT !.troops = @ + 1]
     ELSE terr[i]]

\* the body of aiPlayers.forEach for one aiPlayer: the states it can leave
AITurn(st, id) ==
  {LET res == IF d = NoAction
              THEN [territories |-> st.territories, gold |-> st.players[id].gold]
              ELSE processAIAction(st.territories, st.players[id].gold, d, id)
   IN [st EXCEPT !.territories = AIBarracksGrowth(res.territories, id),
                 !.players[id].gold = res.gold] :
     d \in makeAIDecisions(st.territories, id, st.players[id].gold,
                           st.client.personality[id], st.client.gameDay)}

\* aiPlayers.forEach
AITurns(st) ==
  UNION {UNION {AITurn(s2, AIPlayers[3]) : s2 \in AITurn(s1, AIPlayers[2])} :
           s1 \in AITurn(st, AIPlayers[1])}

\* the body of the troop update effect when the update is due
ApplyGrowth(st) ==
  {[s EXCEPT !.client.lastTroopUpdateTime = st.client.gameTime,
             !.client.applied = Append(@, st.client.gameTime)] :
     s \in UNION {AITurns(grown) :
                    grown \in {[st EXCEPT
                                 !.players[Human] = PlayerGrowth(st.territories, @, st.client),
                                 !.territories = PlayerBarracksGrowth(@)]}}}

\* one run of the troop update effect
TroopUpdate(st, hasClaimedTerritory) ==
  IF /\ st.client.gameStarted /\ st.territories # <<>> /\ hasClaimedTerritory
     /\ GrowthDue(st.client.gameTime, st.client.lastTroopUpdateTime)
  THEN ApplyGrowth(st)
  ELSE {st}

\* the effects after a render: the troop update runs, and runs again on the state it set
Effects(st, hasClaimedTerritory) ==
  UNION {TroopUpdate(s, hasClaimedTerritory) : s \in TroopUpdate(st, hasClaimedTerritory)}

(***************************************************************************)
(* State.                                                                  *)
(***************************************************************************)
VARIABLES
  arena,         \* which program owns the grid: "client" (page.tsx) or "simulator" (GameSimulator)
  territories,   \* the grid: territories (client state) / this.territories (simulator)
  players,       \* id -> [gold, troops, territory]: playerGold and aiPlayers / this.players
  ui,            \* client: [hasClaimedTerritory, buildingMode, selectedBuildingType]
  sim,           \* GameSimulator: [isRunning, currentEpisode, episodeCount, gameDay]
  loops,         \* the invocations of runSimulation: position and locals of each
  active,        \* the invocation that holds the thread (0: none, the event loop is idle)
  replayMemory,  \* neuralAI.replayMemory
  metrics,       \* neuralAI.trainingMetrics (the episode of each recorded metric)
  neural,        \* the NeuralAI object neuralAI: models, epsilon, trainingStep (and the
                 \* isInitialized flag of the NeuralAIPlayer that wraps it)
  client,        \* client: [gameStarted, gameTime, lastTroopUpdateTime, gameDay, ...]
  calls,         \* number of calls made so far
  last           \* the last call: its name, actor, argument and the state it started from

vars ==
  <<arena, territories, players, ui, sim, loops, active, replayMemory, metrics, neural, client,
    calls, last>>

\* the record of a call
Call(op, actor, d, pre, preGold, preUi) ==
  [op |-> op, actor |-> actor, d |-> d, pre |-> pre, preGold |-> preGold, preUi |-> preUi,
   legal |-> {}, reward |-> 0, trueReward |-> 0, stored |-> <<>>]

NoUi == [hasClaimedTerritory |-> FALSE, buildingMode |-> FALSE, selectedBuildingType |-> NoKind]

NoCall == Call("none", "none", NoAction, <<>>, 0, NoUi)

NoSim == [isRunning |-> FALSE, currentEpisode |-> 0, episodeCount |-> 0, gameDay |-> 0]

\* the client's timers before a game is started
NoClient ==
  [gameStarted |-> FALSE, gameTime |-> 0, lastTroopUpdateTime |-> 0, gameDay |-> 1,
   nextEventDay |-> 5, eventActive |-> FALSE, currentEvent |-> "", timeouts |-> 0,
   personality |-> <<>>, applied |-> <<>>, starts |-> 0, idle |-> FALSE]

Player(gold) == [gold |-> gold, troops |-> 100, territory |-> 0]

\* the array order of the map generators (y outer, x inner): the x and the y of the
\* i-th cell of a grid that is `width` cells wide
CellX(i, width) == (i - 1) % width

CellY(i, width) == (i - 1) \div width

(***************************************************************************)
(* SpecResolver: the resolvers called one at a time on small grids.        *)
(* The initial grids are mid-game positions: the first player holds the    *)
(* left column, the two AIs share the right column, the middle is neutral  *)
(* and may hold a wall built by ai2 (wall flag, ai2 as display owner, no   *)
(* troops).                                                                *)
(***************************************************************************)
\* troops of the first player's, the AIs' and the neutral cells
TroopProfiles ==
  {[own |-> 12, ai |-> 3, neutral |-> 1],
   [own |-> 6, ai |-> 8, neutral |-> 4],
   [own |-> 1, ai |-> 10, neutral |-> 0]}

GoldLevels == {90, 500}

\* building kinds the harness asks for (farm, mine and market resolve like barracks)
HarnessKinds == {"fort", "tower", "wall", "barracks"}

ArenaCell(x, y, first, profile, walled) ==
  IF x = 0 THEN Territory(x, y, "land", first, IF first = NoOwner THEN profile.neutral ELSE profile.own)
  ELSE IF x = ArenaWidth - 1
       THEN Territory(x, y, "land", IF y % 2 = 0 THEN "ai1" ELSE "ai2", profile.ai)
       ELSE IF walled /\ y = ArenaHeight - 1
            THEN [Territory(x, y, "land", "ai2", 0) EXCEPT !.wall = TRUE]
            ELSE Territory(x, y, "land", NoOwner, profile.neutral)

ArenaGrid(first, profile, walled) ==
  [i \in 1..(ArenaWidth * ArenaHeight) |->
     ArenaCell(CellX(i, ArenaWidth), CellY(i, ArenaWidth), first, profile, walled)]

Cells == {[x |-> x, y |-> y] : x \in 0..(ArenaWidth - 1), y \in 0..(ArenaHeight - 1)}

\* the decisions handed to a resolver: any attack between two cells, any defend, any build
\* a territory that is not on the grid (one column to the right of it)
OffGrid == [x |-> ArenaWidth, y |-> 0]

\* the decisions that name a territory the grid does not hold
Unmatched ==
  {Attack(OffGrid, t) : t \in Cells} \cup {Attack(s, OffGrid) : s \in Cells}
    \cup {Defend(OffGrid)}
    \cup {Build(OffGrid, kind) : kind \in HarnessKinds}

Decisions ==
  ({Attack(s, t) : s \in Cells, t \in Cells} \ {Attack(c, c) : c \in Cells})
    \cup {Defend(t) : t \in Cells}
    \cup {Build(c[1], c[2]) : c \in Cells \X HarnessKinds}
    \cup Unmatched

\* the grid after the click that selects the first territory of the human player
WithSelection(grid) ==
  IF OwnedBy(grid, Human) = {} THEN grid
  ELSE [grid EXCEPT ![Min(OwnedBy(grid, Human))].isSelected = TRUE]

InitResolver ==
  /\ arena \in {"client", "simulator"}
  /\ \E profile \in TroopProfiles, walled \in BOOLEAN, claimed \in BOOLEAN, g \in GoldLevels,
        selected \in BOOLEAN :
       /\ arena = "simulator" => claimed
       /\ selected => (arena = "client" /\ claimed)
       /\ territories = (IF selected THEN WithSelection(
                           ArenaGrid(IF ~claimed THEN NoOwner
                                     ELSE IF arena = "client" THEN Human ELSE "neural",
                                     profile, walled))
                         ELSE ArenaGrid(IF ~claimed THEN NoOwner
                                        ELSE IF arena = "client" THEN Human ELSE "neural",
                                        profile, walled))
       /\ players = [id \in (IF arena = "client" THEN {Human} ELSE {"neural"}) \cup {"ai1", "ai2"}
                       |-> Player(g)]
       /\ ui = [NoUi EXCEPT !.hasClaimedTerritory = claimed]
  /\ sim = NoSim
  /\ loops = <<>>
  /\ active = 0
  /\ replayMemory = <<>>
  /\ metrics = <<>>
  /\ neural = NewNeuralAI
  /\ client = [NoClient EXCEPT !.gameStarted = (arena = "client")]
  /\ calls = 0
  /\ last = NoCall

Frame == UNCHANGED <<arena, client, neural, sim, loops, active, replayMemory, metrics>>

ClientFrame == UNCHANGED <<arena, neural, sim, loops, active, replayMemory, metrics>>

\* the render after a handler has set the state st: the effects run, and set the state
Render(st, hasClaimedTerritory) ==
  \E set \in {st} : \E s \in Effects(set, hasClaimedTerritory) :
    /\ territories' = s.territories
    /\ players' = s.players
    /\ client' = s.client

\* a click of the player on tile c, then the troop update effect
Click(c) ==
  /\ arena = "client" /\ calls < MaxCalls /\ client.gameStarted
  /\ LET res == handleCanvasClick(territories, players[Human].gold, ui, c.x, c.y)
     IN /\ ui' = res.ui
        /\ Render([territories |-> res.territories,
                   players |-> [players EXCEPT ![Human].gold = res.gold],
                   client |-> client],
                  res.ui.hasClaimedTerritory)
  /\ last' = Call("handleCanvasClick", Human, Defend(c), territories, players[Human].gold, ui)
  /\ calls' = calls + 1
  /\ ClientFrame

\* a build button: setBuildingMode(true); setSelectedBuildingType(kind)
SelectBuilding(kind) ==
  /\ arena = "client" /\ calls < MaxCalls /\ client.gameStarted
  /\ ui.hasClaimedTerritory
  /\ ui' = [ui EXCEPT !.buildingMode = TRUE, !.selectedBuildingType = kind]
  /\ last' = Call("selectBuilding", Human, NoAction, territories, players[Human].gold, ui)
  /\ calls' = calls + 1
  /\ UNCHANGED <<territories, players>>
  /\ Frame

\* processAIAction(territories, d, aiPlayer) on the client's grid
ProcessAIAction(id, d) ==
  /\ arena = "client" /\ calls < MaxCalls
  /\ LET res == processAIAction(territories, players[id].gold, d, id)
     IN /\ territories' = res.territories
        /\ players' = [players EXCEPT ![id].gold = res.gold]
  /\ last' = Call("processAIAction", id, d, territories, players[id].gold, ui)
  /\ calls' = calls + 1
  /\ UNCHANGED ui
  /\ Frame

\* gameSimulator.executeAction(a, player)
ExecuteAction(id, a) ==
  /\ arena = "simulator" /\ calls < MaxCalls
  /\ LET res == executeAction(territories, players[id].gold, a, id)
     IN /\ territories' = res.territories
        /\ players' = [players EXCEPT ![id].gold = res.gold]
  /\ last' = Call("executeAction", id, a, territories, players[id].gold, ui)
  /\ calls' = calls + 1
  /\ UNCHANGED ui
  /\ Frame

\* neuralAI.getLegalActions(territories, player)
GetLegalActions(id) ==
  /\ arena = "simulator" /\ calls < MaxCalls
  /\ last' = [Call("getLegalActions", id, NoAction, territories, players[id].gold, ui)
                EXCEPT !.legal = getLegalActions(territories, id, players[id].gold)]
  /\ calls' = calls + 1
  /\ UNCHANGED <<territories, players, ui>>
  /\ Frame

\* gameSimulator.executeAITurn(player), its Math.random() calls returning r / 100
ExecuteAITurn(id, r) ==
  /\ arena = "simulator" /\ calls < MaxCalls
  /\ LET res == executeAITurn(territories, players[id].gold, id, r)
     IN /\ territories' = res.territories
        /\ players' = [players EXCEPT ![id].gold = res.gold]
  /\ last' = Call("executeAITurn", id, AITurnAction(territories, players[id].gold, id, r),
                  territories, players[id].gold, ui)
  /\ calls' = calls + 1
  /\ UNCHANGED ui
  /\ Frame

\* gameSimulator.updateGameState(), its Math.random() calls returning r / 100
UpdateGameState(r) ==
  /\ arena = "simulator" /\ calls < MaxCalls
  /\ LET res == updateGameState(territories, players, 1, r)
     IN /\ territories' = res.territories
        /\ players' = res.players
  /\ last' = Call("updateGameState", "none", NoAction, territories, 0, ui)
  /\ calls' = calls + 1
  /\ UNCHANGED ui
  /\ Frame

NextResolver ==
  \/ \E c \in Cells : Click(c)
  \/ \E kind \in HarnessKinds : SelectBuilding(kind)
  \/ \E id \in {"ai1", "ai2"}, d \in Decisions : ProcessAIAction(id, d)
  \/ \E id \in {"neural", "ai1", "ai2"}, a \in Decisions : ExecuteAction(id, a)
  \/ \E id \in {"neural", "ai1", "ai2"} : GetLegalActions(id)
  \/ \E id \in {"ai1", "ai2"}, r \in RandomDraws : ExecuteAITurn(id, r)
  \/ \E r \in RandomDraws : UpdateGameState(r)

SpecResolver == InitResolver /\ [][NextResolver]_vars

(***************************************************************************)
(* ai.ts: GameSimulator.initializeEpisode.  Math.random() of the map       *)
(* generator is a seed: the troops of the neutral cells and the cell that  *)
(* is water (NoRef: none).                                                 *)
(***************************************************************************)
MapSeeds == {[troops |-> 2, water |-> [x |-> 2, y |-> 2]]}

\* generateRandomMap(width, height)
generateRandomMap(width, height, seed) ==
  [i \in 1..(width * height) |->
     LET x == CellX(i, width)
         y == CellY(i, width)
     IN IF seed.water = [x |-> x, y |-> y]
        THEN Territory(x, y, "water", NoOwner, 0)
        ELSE Territory(x, y, "land", NoOwner, seed.troops)]

\* initializePlayers(3)
initializePlayers == [id \in SimPlayerIds |-> Player(500)]

Max(S) == CHOOSE i \in S : \A j \in S : i >= j

\* the switch (index) of distributeStartingTerritories, k = index + 1
StartPosition(k, width, height) ==
  [x |-> IF k = 2 THEN (width * 8) \div 10 ELSE (width * 2) \div 10,
   y |-> IF k = 3 THEN (height * 8) \div 10 ELSE (height * 2) \div 10]

\* distributeStartingTerritories(): each player in turn takes the 2x2 block that ends
\* at its start position, water excepted; a later player overwrites an earlier one
distributeStartingTerritories(terr) ==
  LET width == Max({terr[i].x : i \in DOMAIN terr}) + 1
      height == Max({terr[i].y : i \in DOMAIN terr}) + 1
      Takers(t) ==
        {k \in DOMAIN SimPlayers :
           LET start == StartPosition(k, width, height)
           IN /\ t.x \in {start.x - 1, start.x}
              /\ t.y \in {start.y - 1, start.y}}
  IN [i \in DOMAIN terr |->
        IF Takers(terr[i]) = {} \/ terr[i].type = "water" THEN terr[i]
        ELSE [terr[i] EXCEPT !.owner = SimPlayers[Max(Takers(terr[i]))],
                             !.troops = StartTroops]]

\* initializeEpisode(): the new grid, players and counters
initializeEpisode(s, seed) ==
  [territories |-> distributeStartingTerritories(generateRandomMap(MapWidth, MapHeight, seed)),
   players |-> initializePlayers,
   sim |-> [s EXCEPT !.gameDay = 0,
                     !.currentEpisode = @ + 1,
                     !.episodeCount = @ + 1]]

(***************************************************************************)
(* SpecSim: the training loop.  startSimulation() and stopSimulation() are *)
(* called while no loop holds the thread; an invocation of runSimulation   *)
(* runs from one await to the next without interruption (`active` is the   *)
(* invocation running) and is suspended at                                 *)
(*   "choose"    await neuralAI.chooseAction(...)                          *)
(*   "returned"  await this.runEpisode()                                   *)
(*   "train"     await neuralAI.trainOnBatch()                             *)
(*   "pause"     await new Promise(setTimeout)                             *)
(* While it is suspended in "choose" it holds neuralPlayer, previousState  *)
(* and legalActions of its tick.  previousState.territories is a copy of   *)
(* the array, not of the Territory objects: it shows the objects as they   *)
(* are when it is read.  If another invocation replaces this.territories   *)
(* and this.players meanwhile, the suspended one keeps the old objects     *)
(* (heldTerr, heldGold), which nothing changes any more.                   *)
(* While it is suspended in "train" its trainOnBatch() is suspended at     *)
(*   tpc "nextQ"      await nextQValues.array()                            *)
(*   tpc "currentQ"   await currentQValues.array()                         *)
(*   tpc "fit"        await this.model.fit(...)                            *)
(* or has returned (tpc "return").                                         *)
(* startTerr (the grid when the tick started), nextQFrom (the weights that *)
(* gave the next-state predictions), stopped, afterStop, threw, afterThrow *)
(* and ticks (the ticks of the current runEpisode call) are history        *)
(* variables.                                                              *)
(***************************************************************************)
NewLoop ==
  [pc |-> "loop", isGameOver |-> FALSE, legal |-> {}, prevGold |-> 0,
   held |-> FALSE, heldTerr |-> <<>>, heldGold |-> 0, startTerr |-> <<>>,
   tpc |-> "none", nextQFrom |-> NoModel,
   stopped |-> FALSE, afterStop |-> {}, threw |-> FALSE, afterThrow |-> {}, ticks |-> 0]

\* the locals of a tick are dead once the tick has ended
EndTick(lp) ==
  [lp EXCEPT !.legal = {}, !.prevGold = 0, !.held = FALSE, !.heldTerr = <<>>,
             !.heldGold = 0, !.startTerr = <<>>]

\* history: the loop did `work` although stopSimulation() had been called, or although
\* its runEpisode or trainOnBatch had thrown
Did(lp, work) ==
  [lp EXCEPT !.afterStop = IF lp.stopped THEN @ \cup {work} ELSE @,
             !.afterThrow = IF lp.threw THEN @ \cup {work} ELSE @]

\* the invocations suspended in a tick keep the objects that initializeEpisode replaces
Hold(ls, l) ==
  [k \in DOMAIN ls |->
     IF k # l /\ ls[k].pc = "choose" /\ ~ls[k].held
     THEN [ls[k] EXCEPT !.held = TRUE, !.heldTerr = territories,
                        !.heldGold = players["neural"].gold]
     ELSE ls[k]]

\* extractFeatures(territories, player): per territory the ownership (1 own, -1 enemy,
\* 0 neutral), the troops (divided by 100 in the code), the building kind (one-hot in the
\* code) and the wall flag, then the player's gold; the player's troops and territory
\* entries are left out
extractFeatures(terr, id, gold) ==
  [cells |-> [i \in DOMAIN terr |->
                [owner |-> IF terr[i].owner = NoOwner THEN 0
                           ELSE IF terr[i].owner = id THEN 1 ELSE -1,
                 troops |-> terr[i].troops,
                 building |-> terr[i].building.type,
                 wall |-> terr[i].wall]],
   gold |-> gold]

\* const buildingTypes = ["fort", "farm", "tower", "barracks", "wall", "mine", "market"]
featureBuildingTypes == <<"fort", "farm", "tower", "barracks", "wall", "mine", "market">>

\* buildingTypes.forEach((type) => features.push(building && building.type === type ? 1 : 0))
oneHot(building) ==
  [k \in DOMAIN featureBuildingTypes |->
     IF building # NoBuilding /\ building.type = featureBuildingTypes[k] THEN 1 ELSE 0]

\* a variant of the per-territory entries that pushes no ownership entry for a neutral cell
cellFeaturesSparse(t, id) ==
  (IF t.owner = NoOwner THEN <<>> ELSE IF t.owner = id THEN <<1>> ELSE <<-1>>)
    \o <<t.troops>> \o oneHot(t.building) \o <<IF t.wall THEN 1 ELSE 0>>

\* the entries extractFeatures pushes for one territory: ownership, troops (in
\* hundredths: the code pushes troops / 100), the building one-hot, the wall flag
cellFeatures(t, id) ==
  <<IF t.owner = NoOwner THEN 0 ELSE IF t.owner = id THEN 1 ELSE -1>>
    \o <<t.troops>> \o oneHot(t.building) \o <<IF t.wall THEN 1 ELSE 0>>

\* territories.forEach of extractFeatures, from territory i on
RECURSIVE boardFeatures(_, _, _)
boardFeatures(terr, id, i) ==
  IF i > Len(terr) THEN <<>>
  ELSE cellFeatures(terr[i], id) \o boardFeatures(terr, id, i + 1)

\* the array extractFeatures(territories, player) returns, entry by entry (gold and
\* troops in thousandths, territory in hundredths); extractFeatures above is its view
\* by cell
featureVector(terr, id, player) ==
  boardFeatures(terr, id, 1) \o <<player.gold, player.troops, player.territory>>

\* an experience {state, action, reward, nextState, done}; the action indices are the
\* placeholder that runEpisode stores; the reward (which only trainOnBatch's tensors
\* read) is not kept
Experience(state, reward, nextState, done) ==
  [state |-> state, action |-> <<0, 0, 0, 0>>, nextState |-> nextState, done |-> done]

\* what replayMemory keeps of an experience: the action indices and the done flag; the
\* feature vectors of the experience that a tick adds are in last.stored
Kept(e) == [action |-> e.action, done |-> e.done]

\* runEpisode, the end of a tick: checkGameOver, calculateReward over previousState and
\* currentState, addExperience.  upd: the grid and the players after updateGameState;
\* curGold: the gold of neuralPlayer
TickResult(lp, upd, curGold, gameDay) ==
  LET prevTerr == IF lp.held THEN lp.heldTerr ELSE upd.territories
      over == checkGameOver(upd.territories, gameDay, MaxGameDays)
      reward == calculateReward(prevTerr, "neural", lp.prevGold,
                                upd.territories, "neural", curGold)
      e == Experience(extractFeatures(prevTerr, "neural", lp.prevGold), reward,
                      extractFeatures(upd.territories, "neural", curGold), over)
  IN [territories |-> upd.territories,
      players |-> upd.players,
      isGameOver |-> over,
      reward |-> reward,
      trueReward |-> calculateReward(lp.startTerr, "neural", lp.prevGold,
                                     upd.territories, "neural", curGold),
      stored |-> IF lp.legal # {} THEN e ELSE <<>>,
      memory |-> IF lp.legal # {}
                 THEN addExperienceTo(replayMemory, Kept(e), replayMemorySize)
                 ELSE replayMemory]

\* runEpisode, from the end of the neural turn to the end of the tick: the opponents'
\* turns, updateGameState, and the end of the tick.
\* terr1 / gold1: the grid and the gold of neuralPlayer after the neural turn
\* a variant of the tick that ends at once when the agent has no legal action
TickEndSkippingOnPass(lp, terr1, gold1, gameDay, r) ==
  IF lp.legal = {}
  THEN TickResult(lp, [territories |-> terr1, players |-> players], gold1, gameDay)
  ELSE LET pl1 == IF lp.held THEN players ELSE [players EXCEPT !["neural"].gold = gold1]
           opp == OpponentTurns(terr1, pl1, 2, r)
           upd == updateGameState(opp.territories, opp.players, 1, r)
       IN TickResult(lp, upd, IF lp.held THEN gold1 ELSE upd.players["neural"].gold, gameDay)

TickEnd(lp, terr1, gold1, gameDay, r) ==
  LET pl1 == IF lp.held THEN players ELSE [players EXCEPT !["neural"].gold = gold1]
      opp == OpponentTurns(terr1, pl1, 2, r)
      upd == updateGameState(opp.territories, opp.players, 1, r)
  IN TickResult(lp, upd, IF lp.held THEN gold1 ELSE upd.players["neural"].gold, gameDay)

\* the values of Math.random() explored in a tick (opponents' turns and growth)
TickDraws == {0, 99}

\* the resolutions of chooseAction explored: with epsilon = 1 it returns
\* legalActions[Math.floor(Math.random() * length)], any legal action; one Wall build
\* and one other action are explored
IsWallBuild(a) == a.action = "build" /\ a.buildingType = "wall"

ExploredChoices(legalActions) ==
  {CHOOSE a \in legalActions : IsWallBuild(a) = w :
     w \in {IsWallBuild(b) : b \in legalActions}}

InitSim ==
  /\ arena = "simulator"
  /\ territories = <<>>
  /\ players = <<>>
  /\ ui = NoUi
  /\ sim = NoSim
  /\ loops = <<>>
  /\ active = 0
  /\ replayMemory = <<>>
  /\ metrics = <<>>
  /\ neural = initialize(NewNeuralAI, TrainInputSize)
  /\ client = NoClient
  /\ calls = 0
  /\ last = NoCall

SimCall(op) == Call(op, "none", NoAction, <<>>, 0, NoUi)

\* startSimulation(), up to the while test of the runSimulation it invokes
StartSimulation(seed) ==
  /\ active = 0 /\ calls < MaxApiCalls
  /\ calls' = calls + 1
  /\ last' = SimCall("startSimulation")
  /\ IF sim.isRunning
     THEN UNCHANGED <<territories, players, sim, loops, active>>
     ELSE /\ Len(loops) < MaxLoops
          /\ loops' = Append(loops, NewLoop)
          /\ active' = Len(loops) + 1
          /\ IF sim.currentEpisode = 0
             THEN LET ep == initializeEpisode(sim, seed)
                  IN /\ territories' = ep.territories
                     /\ players' = ep.players
                     /\ sim' = [ep.sim EXCEPT !.isRunning = TRUE]
             ELSE /\ sim' = [sim EXCEPT !.isRunning = TRUE]
                  /\ UNCHANGED <<territories, players>>
  /\ UNCHANGED <<arena, client, neural, ui, replayMemory, metrics>>

\* stopSimulation(): this.isRunning = false
stopSimulation(s) == [s EXCEPT !.isRunning = FALSE]

\* a catch that only logs the error
catchLogOnly(s) == s

\* runSimulation: catch (error) { console.error(...); this.stopSimulation(); }
catchError(s) == stopSimulation(s)

\* stopSimulation()
StopSimulation ==
  /\ active = 0 /\ calls < MaxApiCalls
  /\ calls' = calls + 1
  /\ last' = SimCall("stopSimulation")
  /\ sim' = stopSimulation(sim)
  /\ loops' = [k \in DOMAIN loops |->
                 IF loops[k].pc # "done" THEN [loops[k] EXCEPT !.stopped = TRUE] ELSE loops[k]]
  /\ UNCHANGED <<arena, client, neural, territories, players, ui, active, replayMemory, metrics>>

\* runSimulation: while (this.isRunning && this.currentEpisode <= this.maxEpisodes);
\* after the loop, this.isRunning = false
LoopTest(l) ==
  /\ l \in DOMAIN loops /\ active = l /\ loops[l].pc = "loop"
  /\ IF sim.isRunning /\ sim.currentEpisode <= MaxEpisodes
     THEN /\ loops' = [loops EXCEPT ![l].pc = "tick", ![l].isGameOver = FALSE, ![l].ticks = 0]
          /\ UNCHANGED <<sim, active>>
     ELSE /\ loops' = [loops EXCEPT ![l].pc = "done"]
          /\ sim' = [sim EXCEPT !.isRunning = FALSE]
          /\ active' = 0
  /\ last' = SimCall("runSimulation")
  /\ UNCHANGED <<arena, client, neural, territories, players, ui, replayMemory, metrics, calls>>

\* runEpisode: while (!isGameOver && this.gameDay < this.maxGameDays), then the tick
\* up to await chooseAction, or the whole tick when there is no legal action;
\* after the loop, the result is returned
Tick(l, r) ==
  /\ l \in DOMAIN loops /\ active = l /\ loops[l].pc = "tick"
  /\ IF ~loops[l].isGameOver /\ sim.gameDay < MaxGameDays
     THEN LET gameDay == sim.gameDay + 1
              legalActions == getLegalActions(territories, "neural", players["neural"].gold)
              lp == [Did(loops[l], "tick") EXCEPT
                       !.ticks = @ + 1,
                       !.legal = legalActions,
                       !.prevGold = players["neural"].gold,
                       !.startTerr = territories]
          IN /\ sim' = [sim EXCEPT !.gameDay = gameDay]
             /\ IF legalActions # {}
                THEN /\ loops' = [loops EXCEPT ![l] = [lp EXCEPT !.pc = "choose"]]
                     /\ active' = 0
                     /\ last' = SimCall("chooseAction")
                     /\ UNCHANGED <<territories, players, replayMemory>>
                ELSE \E end \in {TickEnd(lp, territories, players["neural"].gold, gameDay, r)} :
                        /\ territories' = end.territories
                        /\ players' = end.players
                        /\ replayMemory' = end.memory
                        /\ loops' = [loops EXCEPT
                                       ![l] = [EndTick(lp) EXCEPT !.isGameOver = end.isGameOver]]
                        /\ last' = [Call("tick", "neural", NoAction, lp.startTerr, lp.prevGold, NoUi)
                                      EXCEPT !.reward = end.reward,
                                             !.trueReward = end.trueReward,
                                             !.stored = end.stored]
                        /\ UNCHANGED active
     ELSE /\ loops' = [loops EXCEPT ![l].pc = "returned"]
          /\ active' = 0
          /\ last' = SimCall("runEpisode")
          /\ UNCHANGED <<territories, players, sim, replayMemory>>
  /\ UNCHANGED <<arena, client, neural, ui, metrics, calls>>

\* chooseAction resolves with the legal action a: executeAction(a, neuralPlayer) and the
\* rest of the tick
ChooseResume(l, a, r) ==
  /\ active = 0 /\ loops[l].pc = "choose"
  /\ a \in loops[l].legal
  /\ LET lp == loops[l]
         res == executeAction(territories, IF lp.held THEN lp.heldGold ELSE players["neural"].gold,
                              a, "neural")
     IN \E end \in {TickEnd(lp, res.territories, res.gold, sim.gameDay, r)} :
        /\ territories' = end.territories
        /\ players' = end.players
        /\ replayMemory' = end.memory
        /\ loops' = [loops EXCEPT
                       ![l] = [EndTick(lp) EXCEPT !.pc = "tick", !.isGameOver = end.isGameOver]]
        /\ last' = [Call("tick", "neural", a, lp.startTerr, lp.prevGold, NoUi)
                      EXCEPT !.reward = end.reward, !.trueReward = end.trueReward,
                             !.stored = end.stored]
  /\ active' = l
  /\ UNCHANGED <<arena, client, neural, ui, sim, metrics, calls>>

\* runSimulation after await this.runEpisode(): addMetric, then trainOnBatch every
\* fifth episode, else initializeEpisode and the pause
EpisodeReturn(l, seed) ==
  /\ active = 0 /\ loops[l].pc = "returned"
  /\ metrics' = Append(metrics, sim.currentEpisode)
  /\ IF sim.currentEpisode % TrainEvery = 0
     THEN /\ loops' = [loops EXCEPT
                         ![l] = TrainStart([Did(Did(@, "metric"), "train") EXCEPT !.pc = "train"],
                                           replayMemory, neural, SimBatchSize)]
          /\ last' = SimCall("trainOnBatch")
          /\ UNCHANGED <<territories, players, sim>>
     ELSE LET ep == initializeEpisode(sim, seed)
          IN /\ territories' = ep.territories
             /\ players' = ep.players
             /\ sim' = ep.sim
             /\ loops' = [Hold(loops, l) EXCEPT
                            ![l] = [Did(Did(@, "metric"), "episode") EXCEPT !.pc = "pause"]]
             /\ last' = SimCall("initializeEpisode")
  /\ UNCHANGED <<arena, client, neural, ui, active, replayMemory, calls>>

\* trainOnBatch() of invocation l resumes after an await that resolved: the second
\* prediction, the Bellman targets and the call of fit, or the end of the batch update
TrainStep(l) ==
  /\ active = 0 /\ l \in DOMAIN loops /\ loops[l].tpc \in {"nextQ", "currentQ", "fit"}
  /\ CASE loops[l].tpc = "nextQ" ->
            /\ loops' = [loops EXCEPT ![l].tpc = "currentQ"]
            /\ UNCHANGED neural
       [] loops[l].tpc = "currentQ" ->
            /\ loops' = [loops EXCEPT ![l].tpc = "fit"]
            /\ UNCHANGED neural
       [] loops[l].tpc = "fit" ->
            /\ loops' = [loops EXCEPT ![l].tpc = "return"]
            /\ neural' = TrainFitted(neural)
  /\ last' = [SimCall("trainOnBatch") EXCEPT !.actor = loops'[l].tpc]
  /\ UNCHANGED <<arena, client, territories, players, ui, sim, active, replayMemory, metrics, calls>>

\* the catch of runSimulation: this.stopSimulation(), then back to the while test
Caught(ls, l) ==
  [k \in DOMAIN ls |->
     IF k = l
     THEN [EndTick(ls[k]) EXCEPT !.pc = "loop", !.tpc = "none", !.threw = TRUE, !.stopped = TRUE]
     ELSE IF ls[k].pc # "done" THEN [ls[k] EXCEPT !.stopped = TRUE] ELSE ls[k]]

\* a prediction or the fit of trainOnBatch() fails (a shape mismatch): the promise that
\* runSimulation awaits is rejected
TrainThrow(l) ==
  /\ active = 0 /\ loops[l].pc = "train" /\ loops[l].tpc \in {"nextQ", "currentQ", "fit"}
  /\ loops' = Caught(loops, l)
  /\ sim' = catchError(sim)
  /\ active' = l
  /\ last' = SimCall("catch")
  /\ UNCHANGED <<arena, client, neural, territories, players, ui, replayMemory, metrics, calls>>

\* the prediction of chooseAction fails: it is made when Math.random() >= epsilon and a
\* model exists; runEpisode is rejected
ChooseThrow(l) ==
  /\ active = 0 /\ loops[l].pc = "choose"
  /\ neural.epsilon < InitialEpsilon /\ neural.model # NoModel
  /\ loops' = Caught(loops, l)
  /\ sim' = catchError(sim)
  /\ active' = l
  /\ last' = SimCall("catch")
  /\ UNCHANGED <<arena, client, neural, territories, players, ui, replayMemory, metrics, calls>>

\* runSimulation after await neuralAI.trainOnBatch(): initializeEpisode and the pause
TrainResume(l, seed) ==
  /\ active = 0 /\ loops[l].pc = "train" /\ loops[l].tpc = "return"
  /\ LET ep == initializeEpisode(sim, seed)
     IN /\ territories' = ep.territories
        /\ players' = ep.players
        /\ sim' = ep.sim
        /\ loops' = [Hold(loops, l) EXCEPT
                       ![l] = [Did(@, "episode") EXCEPT !.pc = "pause", !.tpc = "none"]]
        /\ last' = SimCall("initializeEpisode")
  /\ UNCHANGED <<arena, client, neural, ui, active, replayMemory, metrics, calls>>

\* the timer of the pause fires
PauseResume(l) ==
  /\ active = 0 /\ loops[l].pc = "pause"
  /\ loops' = [loops EXCEPT ![l].pc = "loop"]
  /\ active' = l
  /\ last' = SimCall("resume")
  /\ UNCHANGED <<arena, client, neural, territories, players, ui, sim, replayMemory, metrics, calls>>

NextSim ==
  \/ \E seed \in MapSeeds : StartSimulation(seed)
  \/ StopSimulation
  \/ \E l \in 1..MaxLoops : LoopTest(l)
  \/ \E l \in 1..MaxLoops, r \in TickDraws : Tick(l, r)
  \/ \E l \in DOMAIN loops :
       \E a \in ExploredChoices(loops[l].legal), r \in TickDraws : ChooseResume(l, a, r)
  \/ \E l \in DOMAIN loops, seed \in MapSeeds : EpisodeReturn(l, seed)
  \/ \E l \in DOMAIN loops : TrainStep(l)
  \/ \E l \in DOMAIN loops : TrainThrow(l)
  \/ \E l \in DOMAIN loops : ChooseThrow(l)
  \/ \E l \in DOMAIN loops, seed \in MapSeeds : TrainResume(l, seed)
  \/ \E l \in DOMAIN loops : PauseResume(l)

SpecSim == InitSim /\ [][NextSim]_vars

(***************************************************************************)
(* Properties of the resolvers (SpecResolver).  `last` holds the call just *)
(* made and the grid it started from; `territories` is the grid after it.  *)
(***************************************************************************)
Resolved == last.op # "none"

SourceIndex == FindIndex(last.pre, last.d.source)

TargetIndex == FindIndex(last.pre, last.d.target)

\* the call was processAIAction with an Attack whose source and target are cells of the grid
IsProcessAttack ==
  /\ last.op = "processAIAction" /\ last.d.action = "attack"
  /\ SourceIndex # 0 /\ TargetIndex # 0

\* the call was a second click that attacks: a selection exists, the clicked cell is no
\* wall, is in range of the selection and is not the player's
IsClickAttack ==
  /\ last.op = "handleCanvasClick"
  /\ last.preUi.hasClaimedTerritory
  /\ ~(last.preUi.buildingMode /\ last.preUi.selectedBuildingType # NoKind)
  /\ SelectedIndex(last.pre) # 0
  /\ TargetIndex # SelectedIndex(last.pre)
  /\ ~last.pre[TargetIndex].wall
  /\ Dist2(last.pre[SelectedIndex(last.pre)], last.pre[TargetIndex])
       <= (2 + RangeBonus(last.pre[SelectedIndex(last.pre)]))
            * (2 + RangeBonus(last.pre[SelectedIndex(last.pre)]))
  /\ last.pre[TargetIndex].owner # Human

\* the outcome the attack rule prescribes for source s, target t, attacker id and
\* ATTACK_FRACTION percent / 100, read off the grid before and after
AttackRule(s, t, id, percent) ==
  LET force == (last.pre[s].troops * percent) \div 100
      fortLevel == IF last.pre[t].building.type = "fort" THEN last.pre[t].building.level ELSE 0
  IN /\ force > last.pre[t].troops * (1 + fortLevel)
          => /\ territories[t].owner = id
             /\ territories[t].troops = force - last.pre[t].troops
             /\ territories[t].building = NoBuilding
     /\ ~(force > last.pre[t].troops * (1 + fortLevel))
          => /\ territories[t].owner = last.pre[t].owner
             /\ territories[t].troops = last.pre[t].troops - (force \div (1 + fortLevel))
     /\ territories[s].troops = last.pre[s].troops - force

\* C1: every attack resolved by processAIAction (force floor(70%)) and every second-click
\* attack (force floor(50%)) succeeds iff force > target.troops * (1 + fortLevel); on
\* success the target goes to the attacker with force - target.troops troops and loses its
\* building, on failure it loses floor(force / (1 + fortLevel)) troops and keeps its
\* owner; the source loses exactly the force.
C1_AttackResolution ==
  /\ IsProcessAttack => AttackRule(SourceIndex, TargetIndex, last.actor, 70)
  /\ IsClickAttack => AttackRule(SelectedIndex(last.pre), TargetIndex, Human, 50)

\* C2: in every reachable state, every territory whose wall flag is set has no building
\* and has troops = 0.
C2_WallInvariant ==
  \A i \in DOMAIN territories :
    territories[i].wall => territories[i].building = NoBuilding /\ territories[i].troops = 0

\* a Build call of processAIAction or executeAction
IsBuild == last.op \in {"processAIAction", "executeAction"} /\ last.d.action = "build"

IllegalBuild ==
  /\ IsBuild
  /\ TargetIndex # 0
  /\ \/ last.preGold < buildingCosts[last.d.buildingType]
     \/ last.pre[TargetIndex].building # NoBuilding
     \/ last.d.buildingType = "wall" /\ last.pre[TargetIndex].owner # NoOwner
     \/ last.d.buildingType # "wall" /\ last.pre[TargetIndex].owner # last.actor

\* C3: after an illegal Build (gold below the cost, target already built on, Wall on an
\* owned cell, other kind on a cell the player does not own) given to processAIAction or
\* executeAction, every territory and the player's gold are as before the call.
C3_IllegalBuildRejected ==
  IllegalBuild => territories = last.pre /\ players[last.actor].gold = last.preGold

IllegalAttack ==
  /\ IsProcessAttack
  /\ \/ last.pre[TargetIndex].wall
     \/ Dist2(last.pre[SourceIndex], last.pre[TargetIndex])
          > (2 + RangeBonus(last.pre[SourceIndex])) * (2 + RangeBonus(last.pre[SourceIndex]))

\* C4: after processAIAction is given an Attack on a wall cell, or on a target farther
\* from the source than 2 plus the level of a Tower on the source, no territory's owner,
\* troops or building has changed.
C4_IllegalAttackRejected ==
  IllegalAttack =>
    \A i \in DOMAIN territories :
      /\ territories[i].owner = last.pre[i].owner
      /\ territories[i].troops = last.pre[i].troops
      /\ territories[i].building = last.pre[i].building

OwnerChanged(i) == territories[i].owner # last.pre[i].owner

\* cell i was the target of a successful attack of the call
Captured(i) ==
  \/ /\ IsProcessAttack
     /\ i = TargetIndex
     /\ (last.pre[SourceIndex].troops * 70) \div 100
          > last.pre[i].troops * (1 + DefenseBonus(last.pre[i]))
     /\ territories[i].owner = last.actor
  \/ /\ last.op \in {"executeAction", "executeAITurn"} /\ last.d.action = "attack"
     /\ i = TargetIndex /\ SourceIndex # 0
     /\ last.pre[SourceIndex].owner = last.actor
     /\ (last.pre[SourceIndex].troops * 80) \div 100 > last.pre[i].troops
     /\ territories[i].owner = last.actor
  \/ /\ IsClickAttack
     /\ i = TargetIndex
     /\ last.pre[SelectedIndex(last.pre)].troops \div 2
          > last.pre[i].troops * (1 + DefenseBonus(last.pre[i]))
     /\ territories[i].owner = Human

\* cell i was taken by the player's first click (the initial claim)
Claimed(i) ==
  /\ last.op = "handleCanvasClick"
  /\ ~last.preUi.hasClaimedTerritory
  /\ Dist2(last.pre[i], last.pre[TargetIndex]) <= 4
  /\ territories[i].owner = Human

\* cell i was unowned and the call built a Wall on it
Walled(i) ==
  /\ i = TargetIndex
  /\ last.pre[i].owner = NoOwner
  /\ territories[i].wall
  /\ territories[i].owner = last.actor
  /\ \/ last.op \in {"processAIAction", "executeAction", "executeAITurn"}
          /\ last.d.action = "build" /\ last.d.buildingType = "wall"
     \/ last.op = "handleCanvasClick"
          /\ last.preUi.buildingMode /\ last.preUi.selectedBuildingType = "wall"

\* C9 (as stated): the owner of a cell changes only where the call captured the cell by
\* a successful attack or claimed it by the first click; Defend, Build of any kind
\* (Wall included), Move, failed attacks and growth change no owner.
C9_OwnerChangesOnlyByCaptureOrClaim ==
  Resolved => \A i \in DOMAIN territories : OwnerChanged(i) => Captured(i) \/ Claimed(i)

\* C9 (amended): the owner of a cell changes only where the call captured the cell by
\* a successful attack, claimed it by the first click, or built a Wall on it while it
\* was unowned (the builder becomes its owner); Defend, other Builds, Move, failed
\* attacks and growth change no owner.
C9_OwnerFrame ==
  Resolved =>
    \A i \in DOMAIN territories : OwnerChanged(i) => Captured(i) \/ Claimed(i) \/ Walled(i)

\* a Wall build accepted by executeAction on an unowned cell has made the builder its owner
C9_WallBuildChangesOwner ==
  /\ last.op = "executeAction"
  /\ \E i \in DOMAIN territories : OwnerChanged(i) /\ Walled(i) /\ ~Captured(i)

\* C10: every Attack that getLegalActions returns has a source owned by the player with
\* at least 5 troops and more troops than the target, and a target that is no wall, is
\* not the player's and lies at Euclidean distance d, 0 < d <= 2, from the source.
C10_LegalAttacks ==
  last.op = "getLegalActions" =>
    \A a \in last.legal :
      a.action = "attack" =>
        LET s == FindIndex(territories, a.source)
            t == FindIndex(territories, a.target)
        IN /\ s # 0 /\ t # 0
           /\ territories[s].owner = last.actor
           /\ territories[s].troops >= 5
           /\ territories[s].troops > territories[t].troops
           /\ ~territories[t].wall
           /\ territories[t].owner # last.actor
           /\ Dist2(territories[s], territories[t]) <= 4
           /\ Dist2(territories[s], territories[t]) > 0

\* getLegalActions returned an Attack and left out a weaker foreign cell at offset (2, 1)
C10_AttackReturned ==
  /\ last.op = "getLegalActions"
  /\ \E a \in last.legal : a.action = "attack"
  /\ \E s, t \in DOMAIN territories :
       /\ territories[s].owner = last.actor
       /\ territories[s].troops >= 5
       /\ territories[t].owner # last.actor
       /\ ~territories[t].wall
       /\ territories[t].troops < territories[s].troops
       /\ Dist2(territories[s], territories[t]) = 5
       /\ Attack(Ref(territories[s]), Ref(territories[t])) \notin last.legal

\* the call was executeAction with an Attack whose preconditions all hold: the source is
\* the attacker's, holds at least 5 troops and more troops than the target; the target is
\* in range, is no wall and is not the attacker's
IsLegalSimAttack ==
  /\ last.op = "executeAction" /\ last.d.action = "attack"
  /\ SourceIndex # 0 /\ TargetIndex # 0
  /\ last.pre[SourceIndex].owner = last.actor
  /\ last.pre[SourceIndex].troops >= 5
  /\ last.pre[SourceIndex].troops > last.pre[TargetIndex].troops
  /\ Dist2(last.pre[SourceIndex], last.pre[TargetIndex]) <= 4
  /\ Dist2(last.pre[SourceIndex], last.pre[TargetIndex]) > 0
  /\ ~last.pre[TargetIndex].wall
  /\ last.pre[TargetIndex].owner # last.actor

\* C11: one Attack executed by the simulator with every precondition satisfied changes
\* the owner of exactly one territory, the target, which becomes the attacker's, and the
\* source loses exactly the attacking force, floor(80%) of its troops.
C11_LegalAttackCaptures ==
  IsLegalSimAttack =>
    /\ {i \in DOMAIN territories : OwnerChanged(i)} = {TargetIndex}
    /\ territories[TargetIndex].owner = last.actor
    /\ last.pre[SourceIndex].troops - territories[SourceIndex].troops
         = (last.pre[SourceIndex].troops * 80) \div 100

(***************************************************************************)
(* Properties of the training loop (SpecSim).                              *)
(***************************************************************************)
\* C5: the reward of every tick of runEpisode is 10 x the territory difference + 0.1 x
\* the gold difference + 0.5 x the troop difference + 5 x the building difference of the
\* neural agent between the grid as it was when the tick started and the grid at its
\* end (both rewards in tenths).
C5_RewardOverSnapshot ==
  last.op = "tick" => last.reward = last.trueReward

\* C7: once stopSimulation() has been called, a run that was in flight starts no further
\* tick, records no further metric, calls no further batch update and initializes no
\* further episode.
C7_NothingAfterStop ==
  \A l \in DOMAIN loops : loops[l].afterStop = {}

\* the invocations of runSimulation that are inside runEpisode or between its return
\* and the next pause
InEpisode == {l \in DOMAIN loops : loops[l].pc \in {"tick", "choose", "returned", "train"}}

\* C8: for any sequence of startSimulation() / stopSimulation() calls at most one
\* runSimulation loop is live: two invocations are never both inside an episode, where
\* their ticks and episode initializations would interleave on the shared grid.
C8_SingleLoop ==
  Cardinality(InEpisode) <= 1

\* the invocations whose trainOnBatch() is in flight: suspended at one of its awaits
Training == {l \in DOMAIN loops : loops[l].tpc \in {"nextQ", "currentQ", "fit"}}

\* the invocations inside the tick loop of runEpisode
InTicks == {l \in DOMAIN loops : loops[l].pc \in {"tick", "choose"}}

\* C14: batch updates are synchronous with the episode loop: no episode is initialized
\* and no tick is executed while a scheduled trainOnBatch() is still in flight, and
\* epsilon, the live weights and the training-step counter change (the fit of a batch
\* update completes) only while no episode's ticks are running.
C14_TrainingSynchronous ==
  /\ last.op \in {"initializeEpisode", "chooseAction", "tick"} => Training = {}
  /\ (last.op = "trainOnBatch" /\ last.actor = "return") => InTicks = {}

\* C16: a failure of the approximator during training aborts the run: when runEpisode
\* or trainOnBatch throws, isRunning becomes false, and the invocation whose await was
\* rejected executes no further tick, batch update or episode: it only leaves its loop.
C16_FailureAborts ==
  /\ last.op = "catch" => ~sim.isRunning
  /\ \A l \in DOMAIN loops :
       loops[l].threw => (loops[l].afterThrow = {} /\ loops[l].pc \in {"loop", "done"})

\* an invocation whose trainOnBatch or runEpisode threw has left its loop while episodes
\* remained to be run
C16_AbortedRun ==
  /\ \E l \in DOMAIN loops : loops[l].threw /\ loops[l].pc = "done"
  /\ ~sim.isRunning
  /\ sim.currentEpisode <= MaxEpisodes

\* C17: every training episode terminates: the tick loop of one runEpisode call
\* executes at most maxGameDays ticks (loops[l].ticks counts the ticks of the current
\* call), and gameDay never exceeds maxGameDays.
C17_EpisodeBounded ==
  /\ sim.gameDay <= MaxGameDays
  /\ \A l \in DOMAIN loops : loops[l].ticks <= MaxGameDays

(***************************************************************************)
(* SpecBuffer: addExperience called again and again on the replay memory   *)
(* of a NeuralAI.  The n-th experience inserted is represented by n; the   *)
(* memory starts empty or one experience short of full.                    *)
(***************************************************************************)
InitBuffer ==
  /\ arena = "buffer"
  /\ territories = <<>>
  /\ players = <<>>
  /\ ui = NoUi
  /\ sim = NoSim
  /\ loops = <<>>
  /\ active = 0
  /\ \E n \in {0, replayMemorySize - 1} :
       /\ replayMemory = [i \in 1..n |-> i]
       /\ calls = n
  /\ metrics = <<>>
  /\ neural = NewNeuralAI
  /\ client = NoClient
  /\ last = NoCall

\* neuralAI.addExperience(...), the (calls + 1)-th call
AddExperience ==
  /\ arena = "buffer" /\ calls < MaxInsertions
  /\ replayMemory' = addExperienceTo(replayMemory, calls + 1, replayMemorySize)
  /\ calls' = calls + 1
  /\ last' = SimCall("addExperience")
  /\ UNCHANGED <<arena, client, neural, territories, players, ui, sim, loops, active, metrics>>

NextBuffer == AddExperience

SpecBuffer == InitBuffer /\ [][NextBuffer]_vars

\* C6: after any sequence of addExperience calls the replay memory holds at most 10,000
\* experiences, and they are exactly the most recently inserted ones in insertion order;
\* after 10,001 insertions the first one inserted is absent.
C6_BoundedFifo ==
  /\ Len(replayMemory) <= 10000
  /\ Len(replayMemory) = (IF calls <= 10000 THEN calls ELSE 10000)
  /\ \A i \in DOMAIN replayMemory : replayMemory[i] = calls - Len(replayMemory) + i
  /\ calls > 10000 => \A i \in DOMAIN replayMemory : replayMemory[i] # 1

\* 10,001 experiences have been inserted: the memory is full and the first is gone
C6_FirstEvicted ==
  /\ calls = 10001
  /\ Len(replayMemory) = 10000
  /\ replayMemory[1] = 2

(***************************************************************************)
(* SpecTrain: a NeuralAI whose trainOnBatch() is called again and again by *)
(* one caller that awaits each call (loops[1], pc "caller").  The replay   *)
(* memory holds a batch or one experience less; initialize() and           *)
(* loadModel() are called between two batch updates.                       *)
(***************************************************************************)
InitTrain ==
  /\ arena = "train"
  /\ territories = <<>>
  /\ players = <<>>
  /\ ui = NoUi
  /\ sim = NoSim
  /\ loops = <<[NewLoop EXCEPT !.pc = "caller"]>>
  /\ active = 0
  /\ \E n \in {batchSize - 1, batchSize} :
       replayMemory = [i \in 1..n |-> Kept(Experience(extractFeatures(<<>>, "neural", 0), 0,
                                                      extractFeatures(<<>>, "neural", 0), FALSE))]
  /\ metrics = <<>>
  /\ neural \in {NewNeuralAI, initialize(NewNeuralAI, TrainInputSize)}
  /\ client = NoClient
  /\ calls = 0
  /\ last = NoCall

TrainFrame ==
  UNCHANGED <<arena, client, territories, players, ui, sim, active, replayMemory, metrics>>

\* the caller is between two calls of trainOnBatch and may reload the models
Quiet ==
  /\ arena = "train" /\ loops[1].tpc = "none"
  /\ calls < MaxReloads /\ neural.trainingStep <= MaxReloadStep

\* neuralAI.initialize(INPUT_SIZE, OUTPUT_SIZE)
Initialize ==
  /\ Quiet
  /\ neural' = initialize(neural, TrainInputSize)
  /\ calls' = calls + 1
  /\ last' = SimCall("initialize")
  /\ UNCHANGED loops
  /\ TrainFrame

\* neuralAI.loadModel(path); loaded: tf.loadLayersModel resolved
LoadModel(loaded) ==
  /\ Quiet
  /\ neural' = loadModel(neural, loaded)
  /\ calls' = calls + 1
  /\ last' = SimCall("loadModel")
  /\ UNCHANGED loops
  /\ TrainFrame

\* neuralAIPlayer.initialize(); loaded: tf.loadLayersModel resolved
PlayerInitialize(loaded) ==
  /\ Quiet
  /\ neural' = playerInitialize(neural, loaded)
  /\ calls' = calls + 1
  /\ last' = SimCall("playerInitialize")
  /\ UNCHANGED loops
  /\ TrainFrame

\* neuralAI.trainOnBatch() is called
TrainOnBatch ==
  /\ arena = "train" /\ loops[1].tpc = "none"
  /\ neural.trainingStep < MaxTrainings
  /\ loops' = [loops EXCEPT ![1] = TrainStart(@, replayMemory, neural, batchSize)]
  /\ last' = [Call("trainOnBatch", loops'[1].tpc, NoAction, <<>>, neural.epsilon, NoUi)
                EXCEPT !.legal = {neural}]
  /\ UNCHANGED <<neural, calls>>
  /\ TrainFrame

\* the caller's await resolves
TrainReturn ==
  /\ arena = "train" /\ loops[1].tpc = "return"
  /\ loops' = [loops EXCEPT ![1].tpc = "none"]
  /\ last' = [last EXCEPT !.op = "trainOnBatch returned"]
  /\ UNCHANGED <<neural, calls>>
  /\ TrainFrame

NextTrain ==
  \/ Initialize
  \/ \E loaded \in BOOLEAN : LoadModel(loaded)
  \/ \E loaded \in BOOLEAN : PlayerInitialize(loaded)
  \/ TrainOnBatch
  \/ TrainStep(1)
  \/ TrainReturn

SpecTrain == InitTrain /\ [][NextTrain]_vars

\* C12: epsilon starts at 1.0 and after N completed batch updates it is
\* max(epsilonMin, 0.995^N) with epsilonMin = 0.1 (neural.power is 0.995^N); it is
\* never below 0.1.
C12_EpsilonSchedule ==
  /\ neural.epsilon = (IF neural.power > InitialEpsilon \div 10
                       THEN neural.power
                       ELSE InitialEpsilon \div 10)
  /\ neural.epsilon >= InitialEpsilon \div 10

\* a step that completes a batch update: trainingStep++
BatchCompleted == neural'.trainingStep = neural.trainingStep + 1

\* a step of initialize(), or of loadModel() (called directly or by
\* NeuralAIPlayer.initialize()) on an initialized NeuralAI whose load resolved
Reloaded ==
  /\ neural'.model # neural.model
  /\ \/ last'.op = "initialize"
     \/ last'.op \in {"loadModel", "playerInitialize"} /\ neural.inputSize # 0

\* what a step may do to the target network
TargetStep ==
  /\ (neural'.targetModel # neural.targetModel) =>
       (Reloaded \/ (BatchCompleted /\ neural'.trainingStep % 10 = 0))
  /\ (BatchCompleted /\ neural'.trainingStep % 10 = 0) =>
       (neural'.targetModel = neural'.model)
  /\ (BatchCompleted /\ neural'.trainingStep % 10 # 0) =>
       (neural'.targetModel = neural.targetModel /\ neural'.targetModel # neural'.model)
  /\ Reloaded => (neural'.targetModel = neural'.model)
  /\ (loops[1].tpc = "none" /\ loops'[1].tpc = "nextQ") =>
       (loops'[1].nextQFrom = neural.targetModel)

LandColumns == {0, 2, 3, 5, 6, 8, 10, 12, 13, 15}

StartSeeds ==
  {[neutral |-> 1, ai |-> 5, personality |-> <<"aggressive", "builder", "defensive">>],
   [neutral |-> 5, ai |-> 9, personality |-> <<"expansionist", "aggressive", "builder">>]}

\* the game time explored: one tick past the fifth day change
MaxGameTime == 5 * DayTicks + 1

\* the game times at which the player acts: at the start, around the first troop update
\* and at the end
InputTimes == {0, GrowthInterval - 1, GrowthInterval + 1, MaxGameTime}

\* the tiles the player clicks and the build buttons the player uses
ClickColumns == {0, 5, 8, 13}

ClientKinds == {"wall", "barracks"}

ClientCells == {[x |-> x, y |-> 0] : x \in LandColumns \cap (0..(ClientWidth - 1))}

\* the k-th land cell in the order of createTerritories (y outer, x inner)
LandCell(k) ==
  CHOOSE c \in ClientCells : Cardinality({d \in ClientCells : d.x < c.x}) = k - 1

\* createTerritories
createTerritories(seed) ==
  [k \in 1..Cardinality(ClientCells) |->
     Territory(LandCell(k).x, LandCell(k).y, "plains", NoOwner, seed.neutral)]

\* sections[index]
Section(k) ==
  [x |-> (ClientWidth * (IF k = 1 THEN 2 ELSE IF k = 2 THEN 8 ELSE 5)) \div 10,
   y |-> (ClientHeight * (IF k = 3 THEN 8 ELSE 2)) \div 10]

\* "Assign starting territories to AI players": the cells within startingRadius of the centre
StartingTerritories(terr, k, troops) ==
  [i \in DOMAIN terr |->
     IF Dist2(terr[i], Section(k)) <= ClaimRadius * ClaimRadius
     THEN [terr[i] EXCEPT !.owner = AIPlayers[k],
                          !.troops = troops,
                          !.building = IF Dist2(terr[i], Section(k)) = 0 /\ @ = NoBuilding
                                       THEN [type |-> "barracks", level |-> 1]
                                       ELSE @]
     ELSE terr[i]]

\* the grid the start effect sets
StartGrid(seed) ==
  StartingTerritories(
    StartingTerritories(
      StartingTerritories(createTerritories(seed), 1, seed.ai), 2, seed.ai), 3, seed.ai)

InitClient ==
  /\ arena = "client"
  /\ territories = <<>>
  /\ players = [id \in {Human} |-> [Player(500) EXCEPT !.troops = 1000]]
  /\ ui = NoUi
  /\ client = NoClient
  /\ sim = NoSim
  /\ loops = <<>>
  /\ active = 0
  /\ replayMemory = <<>>
  /\ metrics = <<>>
  /\ neural = NewNeuralAI
  /\ calls = 0
  /\ last = NoCall

ClientCall(op) == Call(op, Human, NoAction, territories, players[Human].gold, ui)

\* the Start Game button: setGameStarted(true), then the start effect.  The troop update
\* effect of the same commit still sees the grid, the timers and hasClaimedTerritory of
\* the previous game, and what it sets is set after the start effect.
StartGame(seed) ==
  /\ arena = "client" /\ ~client.gameStarted /\ client.starts < MaxStarts
  /\ LET old == [territories |-> territories, players |-> players,
                 client |-> [client EXCEPT !.gameStarted = TRUE]]
     IN \E s \in TroopUpdate(old, ui.hasClaimedTerritory) :
          /\ territories' = IF s # old THEN s.territories ELSE StartGrid(seed)
          /\ players' = [id \in {Human} \cup {AIPlayers[k] : k \in 1..3} |->
                           IF id = Human THEN s.players[Human] ELSE Player(500)]
          /\ client' = [s.client EXCEPT
                          !.gameTime = 0,
                          !.lastTroopUpdateTime = IF s # old THEN client.gameTime ELSE 0,
                          !.personality = [id \in {AIPlayers[k] : k \in 1..3} |->
                                            seed.personality[CHOOSE k \in 1..3 : AIPlayers[k] = id]],
                          !.applied = <<>>,
                          !.starts = @ + 1]
  /\ ui' = [ui EXCEPT !.hasClaimedTerritory = FALSE]
  /\ last' = ClientCall("startGame")
  /\ UNCHANGED calls
  /\ ClientFrame

\* the Quit Game button: setGameStarted(false)
QuitGame ==
  /\ arena = "client" /\ client.gameStarted /\ client.gameTime \in InputTimes
  /\ client' = [client EXCEPT !.gameStarted = FALSE, !.idle = client.timeouts > 0]
  /\ last' = ClientCall("quitGame")
  /\ UNCHANGED <<territories, players, ui, calls>>
  /\ ClientFrame

\* the setInterval callback of the game timer, then the troop update effect
TimerTick ==
  /\ arena = "client" /\ client.gameStarted /\ client.gameTime < MaxGameTime
  /\ LET newTime == client.gameTime + 1
         dayChange == client.gameTime \div DayTicks < newTime \div DayTicks
         event == dayChange /\ client.gameDay = client.nextEventDay
     IN \E name \in EventNames, days \in 3..7 :
          /\ ~event => (name = "Resource Boom" /\ days = 3)
          /\ Render([territories |-> territories, players |-> players,
                     client |-> [client EXCEPT
                       !.gameTime = newTime,
                       !.gameDay = IF dayChange THEN @ + 1 ELSE @,
                       !.nextEventDay = IF event THEN client.gameDay + days ELSE @,
                       !.eventActive = IF event THEN TRUE ELSE @,
                       !.currentEvent = IF event THEN name ELSE @,
                       !.timeouts = IF event THEN @ + 1 ELSE @]],
                    ui.hasClaimedTerritory)
  /\ last' = ClientCall("timer")
  /\ UNCHANGED <<ui, calls>>
  /\ ClientFrame

\* a setTimeout callback of triggerRandomEvent: setEventActive(false), then the effects
EventTimeout ==
  /\ arena = "client" /\ client.timeouts > 0 /\ client.idle
  /\ Render([territories |-> territories, players |-> players,
             client |-> [client EXCEPT !.eventActive = FALSE, !.timeouts = @ - 1]],
            ui.hasClaimedTerritory)
  /\ last' = ClientCall("eventTimeout")
  /\ UNCHANGED <<ui, calls>>
  /\ ClientFrame

NextClient ==
  \/ \E seed \in StartSeeds : StartGame(seed)
  \/ QuitGame
  \/ TimerTick
  \/ EventTimeout
  \/ \E c \in ClientCells : c.x \in ClickColumns /\ client.gameTime \in InputTimes /\ Click(c)
  \/ \E kind \in ClientKinds : client.gameTime \in InputTimes /\ SelectBuilding(kind)

SpecClient == InitClient /\ [][NextClient]_vars

\* C13: in the interactive build the growth (player troops and gold, barracks increments
\* and AI turns) is applied at most once per 3 simulated seconds: between two consecutive
\* applications gameTime has advanced by at least 3 (30 tenths), whatever timer ticks,
\* clicks and event changes re-run the troop update effect in between.
C13_GrowthPeriodic ==
  \A i \in 1..(Len(client.applied) - 1) : client.applied[i + 1] - client.applied[i] >= 30

\* two applications, then a click within the interval that changes the grid and a
\* re-run of the effect that applies nothing
C13_ClickWithinInterval ==
  /\ Len(client.applied) = 2
  /\ last.op = "handleCanvasClick"
  /\ last.pre # territories
  /\ client.gameTime - client.applied[2] \in 1..29

(***************************************************************************)
(* SpecRules: the rules that are functions of a position, applied to       *)
(* positions drawn from a family of mid-game grids: makeAIDecisions for an *)
(* AI of the interactive build (arena "decision"), and checkGameOver,      *)
(* executeAction and calculateReward as a tick of runEpisode calls them    *)
(* (arena "episode": loops[1].startTerr and prevGold are previousState,    *)
(* territories and the gold of neural are currentState).  In a grid the    *)
(* agent holds the first n cells in array order, the enemy the m cells     *)
(* after them, and the rest is neutral; troops vary from cell to cell.     *)
(***************************************************************************)
RulesCells == RulesWidth * RulesHeight

\* the cells the agent holds: none, a pair, and just below / above the 15 of makeAIDecisions
OwnedCounts == {0, 2, 15, 16}

EnemyCounts == {1, 2}

EnemyTroops == {1, 10, 20}

DecisionDays == {4, 5}

\* the agent's positions of the episode arena: cells held, buildings, base troops, gold
RewardStates ==
  {[n |-> 3, b |-> 0, base |-> 15, gold |-> 100],
   [n |-> 5, b |-> 1, base |-> 1, gold |-> 150],
   [n |-> 2, b |-> 0, base |-> 15, gold |-> 90]}

RulesGrid(agent, n, b, base, enemy, m, enemyTroops) ==
  [i \in 1..RulesCells |->
     LET x == CellX(i, RulesWidth)
         y == CellY(i, RulesWidth)
     IN IF i <= n
        THEN [Territory(x, y, "land", agent, base + 10 * (i % 3))
                EXCEPT !.building = IF i <= b THEN [type |-> "farm", level |-> 1] ELSE @]
        ELSE IF i <= n + m
             THEN [Territory(x, y, "land", enemy, enemyTroops)
                     EXCEPT !.building = IF i > n + 1 THEN [type |-> "fort", level |-> 1] ELSE @]
             ELSE Territory(x, y, "land", NoOwner, 2)]

\* the grid with the agent's last cell turned into a wall the agent has built (a wall
\* build sets the wall flag, the builder as owner and troops = 0)
WithWall(grid, n) ==
  IF n < 2 THEN grid ELSE [grid EXCEPT ![n].wall = TRUE, ![n].troops = 0]

InitDecision ==
  /\ arena = "decision"
  /\ \E n \in OwnedCounts, m \in EnemyCounts, t \in EnemyTroops, walled \in BOOLEAN :
       territories = IF walled THEN WithWall(RulesGrid("ai1", n, 0, 5, Human, m, t), n)
                     ELSE RulesGrid("ai1", n, 0, 5, Human, m, t)
  /\ players = [id \in {Human, "ai1", "ai2", "ai3"} |-> Player(500)]
  /\ \E personality \in Personalities, day \in DecisionDays :
       client = [NoClient EXCEPT !.gameStarted = TRUE,
                                 !.gameDay = day,
                                 !.personality = [id \in {"ai1", "ai2", "ai3"} |-> personality]]
  /\ sim = NoSim
  /\ loops = <<>>

InitEpisode ==
  /\ arena = "episode"
  /\ \E before \in RewardStates, after \in RewardStates, m \in EnemyCounts, t \in EnemyTroops :
       /\ territories = RulesGrid("neural", after.n, after.b, after.base, "ai1", m, t)
       /\ players = [initializePlayers EXCEPT !["neural"].gold = after.gold]
       /\ loops = <<[NewLoop EXCEPT
                       !.pc = "tick",
                       !.startTerr = RulesGrid("neural", before.n, before.b, before.base,
                                               "ai1", m, t),
                       !.prevGold = before.gold]>>
  /\ \E day \in 1..MaxGameDays :
       sim = [NoSim EXCEPT !.isRunning = TRUE, !.currentEpisode = 1, !.episodeCount = 1,
                           !.gameDay = day]
  /\ client = NoClient

InitRules ==
  /\ InitDecision \/ InitEpisode
  /\ ui = NoUi
  /\ active = 0
  /\ replayMemory = <<>>
  /\ metrics = <<>>
  /\ neural = NewNeuralAI
  /\ calls = 0
  /\ last = NoCall

RulesFrame == UNCHANGED <<arena, client, neural, ui, sim, active, replayMemory, metrics>>

\* makeAIDecisions(territories, aiPlayer, gameDay): last.legal is the set of the decisions
\* it can return, one per outcome of Math.random()
MakeAIDecisions(id) ==
  /\ arena = "decision"
  /\ last' = [Call("makeAIDecisions", id, NoAction, territories, players[id].gold, ui)
                EXCEPT !.legal = makeAIDecisions(territories, id, players[id].gold,
                                                 client.personality[id], client.gameDay)]
  /\ UNCHANGED <<territories, players, loops, calls>>
  /\ RulesFrame

\* the attacks that getLegalActions offers to the neural player
EpisodeAttacks ==
  IF arena = "episode" /\ calls < MaxCalls
  THEN {a \in getLegalActions(territories, "neural", players["neural"].gold) :
          a.action = "attack"}
  ELSE {}

\* runEpisode: this.executeAction(action, neuralPlayer), action a legal attack
EpisodeAction(a) ==
  /\ arena = "episode" /\ calls < MaxCalls
  /\ LET res == executeAction(territories, players["neural"].gold, a, "neural")
     IN /\ territories' = res.territories
        /\ players' = [players EXCEPT !["neural"].gold = res.gold]
  /\ last' = Call("executeAction", "neural", a, territories, players["neural"].gold, ui)
  /\ calls' = calls + 1
  /\ UNCHANGED loops
  /\ RulesFrame

\* runEpisode: isGameOver = this.checkGameOver()
CheckGameOver ==
  /\ arena = "episode"
  /\ loops' = [loops EXCEPT
                 ![1].isGameOver = checkGameOver(territories, sim.gameDay, MaxGameDays)]
  /\ last' = Call("checkGameOver", "none", NoAction, territories, 0, ui)
  /\ UNCHANGED <<territories, players, calls>>
  /\ RulesFrame

\* runEpisode: neuralAI.calculateReward(previousState, currentState)
CalculateReward ==
  /\ arena = "episode"
  /\ last' = [Call("calculateReward", "neural", NoAction, loops[1].startTerr,
                   loops[1].prevGold, ui)
                EXCEPT !.reward = calculateReward(loops[1].startTerr, "neural",
                                                  loops[1].prevGold, territories, "neural",
                                                  players["neural"].gold)]
  /\ UNCHANGED <<territories, players, loops, calls>>
  /\ RulesFrame

\* the win bonus of runEpisode, in tenths: if (isWinner) totalReward += 100
winBonus(terr, id) == IF determineWinner(terr) = id THEN 1000 ELSE 0

\* runEpisode after its tick loop: isWinner and the win bonus added to totalReward;
\* last.actor is the winner that determineWinner() returns
EpisodeResult ==
  /\ arena = "episode"
  /\ loops[1].isGameOver \/ sim.gameDay >= MaxGameDays
  /\ last' = [Call("runEpisode", determineWinner(territories), NoAction, territories,
                   players["neural"].gold, ui)
                EXCEPT !.reward = winBonus(territories, "neural")]
  /\ UNCHANGED <<territories, players, loops, calls>>
  /\ RulesFrame

NextRules ==
  \/ MakeAIDecisions("ai1")
  \/ \E a \in EpisodeAttacks : EpisodeAction(a)
  \/ CheckGameOver
  \/ CalculateReward
  \/ EpisodeResult

SpecRules == InitRules /\ [][NextRules]_vars

\* C18: an episode's tick loop ends before the maximum tick count only when one player
\* controls all territories: when checkGameOver() ends the loop on a day below
\* maxGameDays, a single player owns every territory of the grid (water excepted).
C18_EarlyEndMeansConquest ==
  (last.op = "checkGameOver" /\ loops[1].isGameOver /\ sim.gameDay < MaxGameDays) =>
    \E p \in SimPlayerIds :
      \A i \in DOMAIN territories :
        territories[i].type = "water" \/ territories[i].owner = p

\* the border territories of the claim: the agent's cells with a neighbour owned by
\* another player
ClaimBorder(terr, id) ==
  {i \in DOMAIN terr :
     /\ terr[i].owner = id
     /\ \E j \in findAdjacentTerritories(terr, i, DefaultRange) :
          terr[j].owner # NoOwner /\ terr[j].owner # id}

\* the border territories whose strongest enemy neighbour has more troops
ClaimThreatened(terr, id) ==
  {i \in ClaimBorder(terr, id) :
     \E j \in findAdjacentTerritories(terr, i, DefaultRange) :
       /\ terr[j].owner # NoOwner /\ terr[j].owner # id
       /\ \A k \in findAdjacentTerritories(terr, i, DefaultRange) :
            (terr[k].owner # NoOwner /\ terr[k].owner # id) => terr[k].troops <= terr[j].troops
       /\ terr[j].troops > terr[i].troops}

\* threatLevel > 0.7, threatLevel being 0 when there are no borders
HighThreat(terr, id) ==
  /\ ClaimBorder(terr, id) # {}
  /\ 10 * Cardinality(ClaimThreatened(terr, id)) > 7 * Cardinality(ClaimBorder(terr, id))

\* what the strategy of the claim's priority order returns
Dispatched(terr, id, gold, personality, gameDay) ==
  LET owned == Cardinality({i \in DOMAIN terr : terr[i].owner = id})
  IN IF owned = 0 THEN {NoAction}
     ELSE IF HighThreat(terr, id) THEN defensiveStrategy(terr, id, gold)
     ELSE IF gameDay < 5 \/ personality = "expansionist"
          THEN expansionStrategy(terr, id, gold)
     ELSE IF personality = "builder" \/ owned > 15 THEN buildingStrategy(terr, id, gold)
     ELSE IF personality = "aggressive" THEN aggressiveStrategy(terr, id, gold)
     ELSE balancedStrategy(terr, id, gold, gameDay)

\* C19: makeAIDecisions dispatches in a fixed priority order for every grid, agent and
\* game day: threatLevel > 0.7 selects Defensive; otherwise gameDay < 5 or personality
\* expansionist selects Expansion; otherwise personality builder or more than 15 owned
\* territories selects Building; otherwise personality aggressive selects Aggressive;
\* otherwise Balanced; threatLevel is the ratio of the border territories whose strongest
\* enemy neighbour has more troops to all border territories (0 without borders), and the
\* result is null when the agent owns no territory.
C19_DispatchPriority ==
  last.op = "makeAIDecisions" =>
    last.legal = Dispatched(last.pre, last.actor, last.preGold,
                            client.personality[last.actor], client.gameDay)

\* a builder with 16 territories and no high threat on day 4: Expansion is selected, and
\* it decides otherwise than Building would
C19_ExpansionBeforeBuilding ==
  /\ last.op = "makeAIDecisions"
  /\ client.personality[last.actor] = "builder"
  /\ client.gameDay = 4
  /\ Cardinality(OwnedBy(last.pre, last.actor)) = 16
  /\ ~HighThreat(last.pre, last.actor)
  /\ last.legal = expansionStrategy(last.pre, last.actor, last.preGold)
  /\ last.legal # buildingStrategy(last.pre, last.actor, last.preGold)

\* the agent's cells of a grid, their troops and their buildings, counted cell by cell
RECURSIVE Tally(_, _, _)
Tally(terr, id, i) ==
  IF i = 0 THEN [territories |-> 0, troops |-> 0, buildings |-> 0]
  ELSE LET rest == Tally(terr, id, i - 1)
       IN IF terr[i].owner # id THEN rest
          ELSE [territories |-> rest.territories + 1,
                troops |-> rest.troops + terr[i].troops,
                buildings |-> rest.buildings + (IF terr[i].building.type # "none" THEN 1 ELSE 0)]

\* 10 x dTerritories + 0.1 x dGold + 0.5 x dTroops + 5 x dBuildings, in tenths
WeightedSum(dTerritories, dGold, dTroops, dBuildings) ==
  100 * dTerritories + dGold + 5 * dTroops + 50 * dBuildings

\* C20: calculateReward(before, after) returns exactly 10 x dTerritories + 0.1 x dGold +
\* 0.5 x dTroops + 5 x dBuildings for the agent, each d being the agent's value in
\* 'after' minus its value in 'before' (territories and buildings counted over the cells
\* the agent owns, troops summed over those cells); +2 territories, +50 gold, -10 troops
\* and +1 building give 25 (last.reward is in tenths).
C20_RewardFormula ==
  last.op = "calculateReward" =>
    LET before == Tally(loops[1].startTerr, "neural", Len(loops[1].startTerr))
        after == Tally(territories, "neural", Len(territories))
        dGold == players["neural"].gold - loops[1].prevGold
    IN /\ last.reward = WeightedSum(after.territories - before.territories, dGold,
                                    after.troops - before.troops,
                                    after.buildings - before.buildings)
       /\ (/\ after.territories - before.territories = 2
           /\ dGold = 50
           /\ after.troops - before.troops = -10
           /\ after.buildings - before.buildings = 1) => last.reward = 250

\* the example of the claim: two territories and a building gained, 50 gold gained, 10
\* troops lost, while the enemy holds cells, troops and a building of its own
C20_ExampleTransition ==
  /\ last.op = "calculateReward"
  /\ Cardinality(OwnedBy(territories, "neural"))
       = Cardinality(OwnedBy(loops[1].startTerr, "neural")) + 2
  /\ players["neural"].gold = loops[1].prevGold + 50
  /\ SumTroops(territories, OwnedBy(territories, "neural"))
       = SumTroops(loops[1].startTerr, OwnedBy(loops[1].startTerr, "neural")) - 10
  /\ BuildingCount(territories, "neural") = BuildingCount(loops[1].startTerr, "neural") + 1
  /\ BuildingCount(territories, "ai1") = 1
  /\ last.reward = 250

\* C21: at the end of an episode the win bonus of +100 is added to the episode's total
\* reward if and only if the neural agent ends the episode as the player with the most
\* territories, no other player owning as many (last.reward is the bonus, in tenths).
C21_WinBonus ==
  (arena = "episode" /\ last.op = "runEpisode") =>
    (last.reward = 1000 <=>
       \A p \in SimPlayerIds \ {"neural"} :
         Cardinality(OwnedBy(territories, "neural")) > Cardinality(OwnedBy(territories, p)))

\* C22: every transition stored in the replay buffer during a training episode carries
\* the encoding of the action the neural agent executed on that tick (action kind, source
\* index, target index, building kind): after a tick on which the action last.d was
\* executed, the experience just stored has the action indices of last.d.
C22_StoredAction ==
  (last.op = "tick" /\ last.d # NoAction) =>
    /\ replayMemory # <<>>
    /\ replayMemory[Len(replayMemory)].action = actionToIndices(last.d, last.pre)

\* the per-cell entries of a feature vector that differ between two grids' features
CellChanged(before, after, i) ==
  \/ before[i].owner # after[i].owner
  \/ before[i].troops # after[i].troops
  \/ before[i].building # after[i].building

\* C23: the state vector stored in a transition is the featurization of the grid as it
\* stood before the agent's action on that tick, the next-state vector the featurization
\* of the grid after the tick; whenever the tick changed a cell's owner, troops or
\* building, the two stored vectors differ in that cell's entries.
C23_StoredFeatures ==
  (last.op = "tick" /\ last.d # NoAction) =>
    LET e == last.stored
    IN /\ e.state.cells = extractFeatures(last.pre, "neural", last.preGold).cells
       /\ e.nextState.cells = extractFeatures(territories, "neural", 0).cells
       /\ \A i \in DOMAIN territories :
            CellChanged(last.pre, territories, i) => e.state.cells[i] # e.nextState.cells[i]

\* C24: Defend adds exactly 5 troops to the target cell and changes nothing else (no
\* other cell, no owner, no building, no gold), and only when the target is owned by
\* the acting player; a Defend on a cell the actor does not own leaves the grid unchanged.
\* Holds for processAIAction and for GameSimulator.executeAction.
C24_DefendFrame ==
  (/\ last.op \in {"processAIAction", "executeAction"}
   /\ last.d.action = "defend"
   /\ FindIndex(last.pre, last.d.target) # 0) =>
    LET i == FindIndex(last.pre, last.d.target)
    IN /\ players[last.actor].gold = last.preGold
       /\ territories = IF last.pre[i].owner = last.actor
                        THEN [last.pre EXCEPT ![i].troops = @ + 5]
                        ELSE last.pre

\* the second click of a move: a territory of the human player is selected, and the click
\* is on another territory of the human player, not a wall, within the range of the
\* selected one
MoveClick ==
  /\ last.op = "handleCanvasClick"
  /\ last.preUi.hasClaimedTerritory
  /\ ~(last.preUi.buildingMode /\ last.preUi.selectedBuildingType # NoKind)
  /\ SelectedIndex(last.pre) # 0
  /\ FindIndex(last.pre, last.d.target) # 0
  /\ LET s == SelectedIndex(last.pre)
         t == FindIndex(last.pre, last.d.target)
     IN /\ s # t
        /\ last.pre[s].owner = Human /\ last.pre[t].owner = Human
        /\ ~last.pre[t].wall
        /\ Dist2(last.pre[s], last.pre[t])
             <= (DefaultRange + RangeBonus(last.pre[s])) * (DefaultRange + RangeBonus(last.pre[s]))

IsExecuteAttack ==
  /\ last.op = "executeAction" /\ last.d.action = "attack"
  /\ SourceIndex # 0 /\ TargetIndex # 0 /\ SourceIndex # TargetIndex
  /\ last.pre[SourceIndex].owner = last.actor
  /\ last.pre[SourceIndex].troops >= SimMinAttackTroops

\* C26: the simulator's executeAction applies the same combat rule as processAIAction:
\* an attack succeeds only if the force (floor(80%) of the source) exceeds
\* target.troops x (1 + fortLevel), a failed attack removes floor(force / (1 + fortLevel))
\* troops from the target, and a capture removes the captured cell's building.
C26_SimulatorCombat ==
  IsExecuteAttack => AttackRule(SourceIndex, TargetIndex, last.actor, 80)

\* the cells on which player id has built: its cells with a building, and its walls
BuiltBy(terr, id) ==
  {i \in DOMAIN terr : terr[i].owner = id /\ (terr[i].building # NoBuilding \/ terr[i].wall)}

\* a step in which the troop update was applied gives every AI player that built nothing
\* in it at least the base gold growth of 10
GoldGrowthStep ==
  (client.gameStarted /\ Len(client'.applied) > Len(client.applied)) =>
    \A n \in DOMAIN AIPlayers :
      (BuiltBy(territories', AIPlayers[n]) = BuiltBy(territories, AIPlayers[n]))
        => (players'[AIPlayers[n]].gold >= players[AIPlayers[n]].gold + 10)

\* C27: in the interactive build the gold growth is applied to every player at each
\* growth application: the human and each AI player gain
\* floor(10 + 0.5 x territories + mines x bonus + markets x bonus), so the gold of an AI
\* player rises at a growth application in which it builds nothing.
C27_AIGoldGrowth == [][GoldGrowthStep]_vars

\* the cells of player id that are not walls
LandOf(terr, id) == {i \in OwnedBy(terr, id) : ~terr[i].wall}

\* C28: a wall cell is never counted as a territory of its shown owner: the territory
\* count that updateGameState gives a player is the number of its cells that are not
\* walls, and building a Wall never increases the number of cells counted for the
\* builder (the count of calculateReward, of the end-of-episode statistics, of the
\* game-over test and of determineWinner: the cells whose owner is the player).
C28_WallNotTerritory ==
  /\ (last.op = "updateGameState") =>
       \A id \in DOMAIN players :
         players[id].territory = Cardinality(LandOf(territories, id))
  /\ (last.op = "executeAction" /\ last.d.action = "build" /\ last.d.buildingType = "wall") =>
       Cardinality(OwnedBy(territories, last.actor))
         <= Cardinality(OwnedBy(last.pre, last.actor))

CatalogCost ==
  [fort |-> 100, farm |-> 150, tower |-> 200, barracks |-> 120,
   wall |-> 80, mine |-> 150, market |-> 200]

\* the kind of the Build of the last call: the decision's, or the one selected for a click
BuildKind ==
  IF last.op = "handleCanvasClick" THEN last.preUi.selectedBuildingType
  ELSE last.d.buildingType

\* the last call was a Build that was accepted: it has put a building or a wall on its target
AcceptedBuild ==
  /\ \/ IsBuild
     \/ /\ last.op = "handleCanvasClick"
        /\ last.preUi.hasClaimedTerritory
        /\ last.preUi.buildingMode /\ last.preUi.selectedBuildingType # NoKind
  /\ TargetIndex # 0
  /\ \/ territories[TargetIndex].building # last.pre[TargetIndex].building
     \/ territories[TargetIndex].wall # last.pre[TargetIndex].wall

\* C30: gold stays non-negative: after any sequence of Build actions (accepted or
\* rejected) and growth steps every player's gold is >= 0, and an accepted Build lowers
\* the builder's gold by exactly the catalog cost of the building kind (fort 100,
\* farm 150, tower 200, barracks 120, wall 80, mine 150, market 200).
C30_GoldNonNegative ==
  /\ \A id \in DOMAIN players : players[id].gold >= 0
  /\ AcceptedBuild => players[last.actor].gold = last.preGold - CatalogCost[BuildKind]

\* an accepted Build has been paid
C30_BuildPaid ==
  /\ AcceptedBuild
  /\ players[last.actor].gold < last.preGold

\* the inputs of extractFeatures: the empty grid, the grid of the first cell and the
\* whole grid, for every player id
FeatureInputs == {<<k, id>> : k \in {0, 1, Len(territories)}, id \in DOMAIN players}

\* C31: for any grid of n cells and any player, extractFeatures returns exactly
\* 10 x n + 3 entries: per cell, in grid order, an ownership flag in {-1, 0, 1} (1 own,
\* -1 other owner, 0 none), the troop value, a 7-slot building one-hot with at most one
\* slot set and a wall flag, then the 3 player scalars; the length depends on n alone.
C31_FeatureLayout ==
  \A in \in FeatureInputs :
    LET n == in[1]
        id == in[2]
    IN \A grid \in {SubSeq(territories, 1, n)} :
       \A v \in {featureVector(grid, id, players[id])} :
       \A f \in {extractFeatures(grid, id, 0).cells} :
       /\ Len(v) = 10 * n + 3
       /\ \A i \in 1..n :
            LET at == 10 * (i - 1)
                t == grid[i]
            IN /\ v[at + 1] = (IF t.owner = NoOwner THEN 0 ELSE IF t.owner = id THEN 1 ELSE -1)
               /\ v[at + 2] = t.troops
               /\ \A k \in 1..7 : v[at + 2 + k] \in {0, 1}
               /\ Cardinality({k \in 1..7 : v[at + 2 + k] = 1}) <= 1
               /\ (t.building # NoBuilding) =>
                    \E k \in 1..7 : v[at + 2 + k] = 1 /\ BuildingTypes[k] = t.building.type
               /\ v[at + 10] = (IF t.wall THEN 1 ELSE 0)
               /\ f[i].owner = v[at + 1]
       /\ v[10 * n + 1] = players[id].gold
       /\ v[10 * n + 2] = players[id].troops
       /\ v[10 * n + 3] = players[id].territory

\* a grid with a neutral cell, a cell of another owner, a building and a wall has been
\* featurized
C31_MixedGrid ==
  /\ \E i \in DOMAIN territories : territories[i].owner = NoOwner
  /\ \E i \in DOMAIN territories : territories[i].building # NoBuilding
  /\ \E i \in DOMAIN territories : territories[i].wall
  /\ Cardinality({territories[i].owner : i \in DOMAIN territories}) >= 3
  /\ Len(featureVector(territories, "ai1", players["ai1"])) = 10 * Len(territories) + 3

\* the last call was handed an action whose source or target is on no territory of the grid
LookupFailure ==
  /\ last.op \in {"processAIAction", "executeAction"}
  /\ \/ last.d.source # NoRef /\ SourceIndex = 0
     \/ last.d.target # NoRef /\ TargetIndex = 0

\* C32: a coordinate lookup failure degrades to a no-op: when the source or the target
\* of an action matches no territory of the grid by (x, y), processAIAction returns the
\* grid with every territory and the player's gold unchanged, and
\* GameSimulator.executeAction changes nothing.
C32_LookupFailureNoOp ==
  LookupFailure =>
    /\ territories = last.pre
    /\ players[last.actor].gold = last.preGold

\* a Build on a territory that the grid does not hold was handed to a player who can pay it
C32_UnmatchedBuild ==
  /\ LookupFailure
  /\ last.d.action = "build"
  /\ last.preGold >= buildingCosts[last.d.buildingType]

\* the invocation that holds the thread is at the top of a tick that will run, and the
\* neural agent has no legal action
PassTick ==
  /\ arena = "simulator"
  /\ active \in DOMAIN loops
  /\ loops[active].pc = "tick"
  /\ ~loops[active].isGameOver /\ sim.gameDay < MaxGameDays
  /\ getLegalActions(territories, "neural", players["neural"].gold) = {}

\* a tick on which the agent passes: nothing of the agent is executed and no transition
\* is stored; the opponents' turns and the growth step run on the grid as it was, and
\* the game-over check runs on their result
PassStep ==
  (PassTick /\ sim'.gameDay # sim.gameDay) =>
    /\ replayMemory' = replayMemory
    /\ last'.stored = <<>>
    /\ \E r \in TickDraws :
         \E upd \in {updateGameState(OpponentTurns(territories, players, 2, r).territories,
                                     OpponentTurns(territories, players, 2, r).players, 1, r)} :
           /\ territories' = upd.territories
           /\ players' = upd.players
    /\ loops'[active].isGameOver = checkGameOver(territories', sim'.gameDay, MaxGameDays)

\* NeuralAIPlayer.makeDecision returns null when there is no legal action
PassDecision ==
  (/\ arena = "simulator" /\ DOMAIN players # {}
   /\ getLegalActions(territories, "neural", players["neural"].gold) = {}) =>
    makeDecision(territories, "neural", players["neural"].gold) = {NoAction}

\* C33: an empty legal-action set makes the agent pass without error: on a tick where
\* getLegalActions returns no action the neural agent executes nothing and no
\* transition is stored, while the opponents' turns, the growth step and the game-over
\* check of that tick still run; NeuralAIPlayer.makeDecision returns null in that case.
C33_EmptyLegalPass == [][PassStep]_vars /\ []PassDecision

\* a tick on which the agent passed has ended: nothing stored, the grid has grown
C33_PassedTick ==
  /\ last.op = "tick" /\ last.d = NoAction /\ last.stored = <<>>
  /\ getLegalActions(last.pre, "neural", last.preGold) = {}
  /\ territories # last.pre

\* decision d is legal against the grid terr and the gold of agent id
LegalDecision(d, terr, id, gold) ==
  LET s == FindIndex(terr, d.source)
      t == FindIndex(terr, d.target)
  IN CASE d.action = "attack" ->
            /\ s # 0 /\ t # 0
            /\ terr[s].owner = id
            /\ ~terr[t].wall /\ terr[t].owner # id
            /\ Dist2(terr[s], terr[t])
                 <= (DefaultRange + RangeBonus(terr[s])) * (DefaultRange + RangeBonus(terr[s]))
       [] d.action = "defend" ->
            /\ t # 0
            /\ terr[t].owner = id /\ ~terr[t].wall
       [] d.action = "build" /\ d.buildingType # "wall" ->
            /\ t # 0
            /\ terr[t].owner = id /\ ~terr[t].wall /\ terr[t].building = NoBuilding
            /\ gold >= buildingCosts[d.buildingType]
       [] d.action = "build" /\ d.buildingType = "wall" ->
            /\ t # 0
            /\ terr[t].owner = NoOwner /\ ~terr[t].wall
            /\ gold >= buildingCosts["wall"]
       [] OTHER -> FALSE

\* C34: every action returned by makeAIDecisions is legal against the grid and gold it
\* was computed from: an Attack has a source owned by the agent and a non-wall target not
\* owned by the agent within range of the source; a Defend targets a non-wall cell owned
\* by the agent; a Build of a non-wall kind targets an un-built, non-wall cell owned by
\* the agent; a Wall build targets an unowned non-wall cell; for every Build the agent's
\* gold covers the cost; processAIAction applied to it never deducts gold without
\* placing the building.
C34_DecisionsLegal ==
  (last.op = "makeAIDecisions") =>
    \A d \in last.legal \ {NoAction} :
      /\ LegalDecision(d, last.pre, last.actor, last.preGold)
      /\ (d.action = "build") =>
           \A res \in {processAIAction(last.pre, last.preGold, d, last.actor)} :
             (res.gold # last.preGold) => (res.territories # last.pre)

\* executeAction accepts action a of player id on the grid terr: an Attack passes the
\* ownership and troop guard and moves troops out of the source, a Defend adds 5 troops
\* to its target, a Build takes exactly the cost and places the building or the wall
Accepted(a, terr, gold, id) ==
  LET s == FindIndex(terr, a.source)
      t == FindIndex(terr, a.target)
  IN \A res \in {executeAction(terr, gold, a, id)} :
       CASE a.action = "attack" ->
              /\ s # 0 /\ t # 0
              /\ terr[s].owner = id /\ terr[s].troops >= SimMinAttackTroops
              /\ res.territories[s].troops < terr[s].troops
              /\ res.gold = gold
         [] a.action = "defend" ->
              /\ t # 0
              /\ res.territories = [terr EXCEPT ![t].troops = @ + 5]
              /\ res.gold = gold
         [] a.action = "build" ->
              /\ t # 0
              /\ res.gold = gold - buildingCosts[a.buildingType]
              /\ IF a.buildingType = "wall"
                 THEN res.territories[t].wall /\ ~terr[t].wall
                 ELSE /\ res.territories[t].building = [type |-> a.buildingType, level |-> 1]
                      /\ terr[t].building = NoBuilding
         [] OTHER -> FALSE

\* C35: every action enumerated by getLegalActions for a grid and player is accepted when
\* GameSimulator.executeAction executes it at once on that grid: an Attack passes the
\* ownership and troop guard and moves troops out of the source, a Defend adds 5 troops,
\* a Build lowers gold by exactly the building's cost and places the building (or the
\* wall) on the target; no enumerated Build costs gold without placing anything.
C35_LegalActionsAccepted ==
  (last.op = "getLegalActions") =>
    \A a \in last.legal : Accepted(a, last.pre, last.preGold, last.actor)

\* getLegalActions has returned an attack, a defend, a build on an owned cell and a wall
\* build
C35_EveryKindEnumerated ==
  /\ last.op = "getLegalActions"
  /\ \E a \in last.legal : a.action = "attack"
  /\ \E a \in last.legal : a.action = "defend"
  /\ \E a \in last.legal : a.action = "build" /\ a.buildingType = "wall"
  /\ \E a \in last.legal : a.action = "build" /\ a.buildingType # "wall"

\* the last call was a click with a territory selected, outside building mode
SecondClick ==
  /\ last.op = "handleCanvasClick"
  /\ last.preUi.hasClaimedTerritory
  /\ ~(last.preUi.buildingMode /\ last.preUi.selectedBuildingType # NoKind)
  /\ SelectedIndex(last.pre) # 0
  /\ TargetIndex # 0

\* C36: in the interactive client troops are moved or committed to an attack only from
\* a territory that the human player owns at the moment of the second click, for every
\* interleaving of the player's clicks with AI turns (an AI may capture the selected
\* territory between the selecting click and the second click).
C36_TroopsLeaveOwnTerritory ==
  (/\ SecondClick
   /\ territories[SelectedIndex(last.pre)].troops < last.pre[SelectedIndex(last.pre)].troops)
    => last.pre[SelectedIndex(last.pre)].owner = Human

\* C37: once NeuralAIPlayer.initialize() has completed the approximator is usable, with a
\* loaded model or, when loading failed, a newly created one: NeuralAIPlayer.isReady()
\* implies neuralAI.isReady().
C37_PlayerReadyImpliesModel ==
  neural.isInitialized => isReady(neural)

\* a step of a trainOnBatch call made when it cannot train: the call returns at once
TrainNoOpStep ==
  (/\ loops'[1].tpc # loops[1].tpc
   /\ CannotTrain(replayMemory, neural, batchSize))
    => /\ <<loops[1].tpc, loops'[1].tpc>> \in {<<"none", "return">>, <<"return", "none">>}
       /\ neural'.epsilon = neural.epsilon
       /\ neural'.trainingStep = neural.trainingStep
       /\ neural'.targetModel = neural.targetModel
       /\ neural'.model = neural.model
       /\ replayMemory' = replayMemory

\* C38: trainOnBatch is a no-op when it cannot train: with fewer than batchSize (32)
\* transitions in the replay buffer, or the live or the target model missing, the call
\* leaves epsilon, the training-step counter, the target network and the replay buffer
\* as they were.
C38_TrainNoOp == [][TrainNoOpStep]_vars

\* a call of trainOnBatch returned at once although both models exist: the buffer is short
C38_ShortBufferReturn ==
  /\ last.op = "trainOnBatch returned"
  /\ Len(replayMemory) < batchSize
  /\ neural.model # NoModel /\ neural.targetModel # NoModel
  /\ neural.trainingStep = 0

\* C39: the feature vector the training simulator hands to the approximator
\* (extractFeatures of its map for the learning player) has exactly the length the
\* approximator was initialized with as its input size, in every episode.
C39_FeatureShape ==
  (arena = "simulator" /\ territories # <<>>)
    => Len(featureVector(territories, "neural", players["neural"])) = neural.inputSize

====
